---- MODULE Spec2Model ----
(***************************************************************************)
(* Model of the sajko-tracker recording engine (src/cdn/v4/wasm_exec.js,   *)
(* class SajkoSessionRecorderV4 and the script's init()), of the           *)
(* acceleration bridge stub (src/unnamed/part_000), of the script loader   *)
(* SajkoLoader (src/packages/core/README.md, lines 40-261) and of the core *)
(* API (src/unnamed/part_004).                                             *)
(*                                                                         *)
(* One action is one task of the page's event loop: a listener callback,   *)
(* a timer callback, the settling of a network request or script load, or  *)
(* a call of the public API.  A handler's code up to its first wait on I/O *)
(* runs inside the action; continuations that wait only on an already      *)
(* resolved promise run before the next task and are part of the action.   *)
(* Handlers are operators on the record World of everything a handler can  *)
(* read or write, so that a handler that calls another is their            *)
(* composition, in the order of the source.                                *)
(***************************************************************************)
EXTENDS Integers, Sequences, FiniteSets, TLC

\* ------------------------------------------------------------------ bounds

\* CONFIG.performance.eventQueueSize.  The source fixes 50 (wasm_exec.js:142);
\* the model is checked at a small ceiling.
eventQueueSize == 2
\* The tail kept by the requeue of a failed batch, events.slice(-10) in the
\* source (wasm_exec.js:1134); scaled with the ceiling.
RequeueTail == 1
\* Event records captured in one behaviour.
MaxEvents == 3
\* Calls of SajkoReplay.start() in one behaviour.
MaxStarts == 1
\* The clock advances in steps of TickMs up to MaxNow.
TickMs == 500
MaxNow == 1000

\* Where exit signals are followed past the duplicate window, the clock runs
\* up to MaxExitNow.
MaxExitNow == 1500

\* Loads of the page in one tab after the first.
MaxPageLoads == 2

\* Times the effect of one component using useSajko is set up.
MaxMounts == 3
\* Calls of the core init() in one behaviour.
MaxCalls == 2
\* SajkoLoader objects constructed in one behaviour.
MaxLoaders == 2
\* Changes of the page's location, navigation detections, and records captured
\* by navigation, in one behaviour.
MaxTransitions == 2
MaxDetections == 3
MaxNavEvents == 6
\* Pointer moves come MoveGapMs apart at the closest, up to MaxMoveNow.
MoveGapMs == 25
MaxMoveNow == 200
\* Calls of track() and identify() in one behaviour.
MaxApiCalls == 2
\* The largest options.retryAttempts an application passes to init().
MaxRetryAttempts == 3

\* ------------------------------------------------------- program constants

\* handleUnload: a marker younger than this suppresses the exit send.
ExitDedupMs == 1000
\* getOrCreateSessionId: a stored session of this age or more is not reused.
SessionTtlMs == 1800000
\* SajkoLoader's default options.retryAttempts.
DefaultRetryAttempts == 3

VARIABLES
  CONFIG, options,            \* the script's CONFIG: hasUserConsent, websiteId (present or not)
  now,               \* Date.now(), ms since the script ran
  initPc,            \* position of the script's init()
  recPc,             \* position of a running recorder.initialize()
  windowWASMBridge,  \* window.WASMBridge is defined
  wasmBridge,        \* this.wasmBridge: "null", or the bridge's isReady as "notReady"/"ready"
  isRecording,       \* this.isRecording
  eventQueue,        \* this.eventQueue
  listeners,         \* registrations of each page signal (eventCleanup entries still attached)
  batchTimers,       \* running setInterval timers of startBatchTimer
  heartbeatInterval, \* this.heartbeatInterval is a running timer
  visibilityTimer,   \* this.visibilityTimer is a pending timeout
  hidden,            \* document.hidden
  historyPatched,    \* layers of the pushState/replaceState override
  perfObservers,     \* PerformanceObservers set up by startPerformanceMonitoring
  SajkoReplay,       \* window.SajkoReplay: present, and its isRecording field
  exitMarker,        \* sessionStorage sajko_exit_<sessionId>: a timestamp, or -1
  hideMarker,        \* sessionStorage sajko_v4_exit_sent_<href> is set
  inflight,          \* batch requests awaiting their response
  captured,          \* event records created so far (their ids)
  starts,            \* calls of SajkoReplay.start() so far
  network,           \* kinds of network request issued so far
  exitLog,           \* the exit-guaranteed sends performed: time and handler
  stopCalled,        \* stop() has been called
  afterStop,         \* what the recorder did after stop(), the final flush apart
  recorderInstance,  \* window.__sajkoRecorderV4Instance is set
  storedSession,     \* sessionStorage holds sajko_session_v4
  sent,              \* ids of the event records handed to a batch request, in order of first handing
  identity,          \* this.sessionId, the stored session (id, created) and the visitor id
  storageThrows,     \* sessionStorage and localStorage throw on access
  navigatorSendBeacon, \* navigator.sendBeacon exists
  online,            \* the collector can be reached: a synchronous XHR send does not throw
  escaped,           \* the handlers an exception has escaped from
  nav, \* location, page number, and the navigations detected, in flight and recorded
  lastMouseMove, \* this.lastMouseMove: performance.now() of the last pointer move recorded
  moves, \* the pointer moves so far: first and last occurrence, records captured
  sajkoConfigPerformance, \* the performance section of the configuration the page supplies
  apiLog, \* the calls of track() and identify() made through the core API, and what became of them
  fate, \* what became of the records handed to a send: delivered, or dropped on a failure
  sessionCreate, \* how the last session-create call ended: none made, ok, failed
  heartbeatsSent, \* the conditions (recording flag, page hidden) under which heartbeats were sent
  lateSuppressed, \* the handlers that skipped a signal arriving more than ExitDedupMs after the last exit send
  syncPayload, \* the records (id, type) of the last payload handed to a synchronous XHR by flushEventsSync
  unloadRun, \* the last handleUnload that was not suppressed: the queue it found, scrolled, what it flushed, what it left
  exitTransports, \* the transport each exit-guaranteed send was handed to
  maskFaults, \* the captures during which the bridge's per-record call threw: records before and after, handler runs, the record's null fields
  staleSends, \* the kinds of request sent under a session id whose stored session had reached SessionTtlMs
  pageLoads, \* loads of the page in this tab after the first
  constructions, \* recorders constructed in this tab so far
  sajkoInstance,     \* the core module's sajkoInstance: 0 for null, or the handle
  loaderInstance,    \* the core module's loaderInstance: 0 for null, or the loader
  singleton,         \* SajkoLoader.instance: 0 for null, or the loader
  loaders,           \* the SajkoLoader objects: scriptPromise, isLoaded, loadWithRetry's progress
  calls,             \* the calls of the core init(): position, loader, handle returned
  scriptEl,          \* the script element of the loader's URL in the document
  windowSajkoConfig, \* window.sajkoConfig is set
  appends,           \* script elements appended to the document so far
  loadScriptCalls,   \* calls of loadScript so far
  hook,              \* a component using useSajko: its effect, refs, closure and state
  unloaded           \* unload() has run and init() has not been called since

vars == <<CONFIG, options, now, initPc, recPc, windowWASMBridge, wasmBridge, isRecording,
          eventQueue, listeners, batchTimers, heartbeatInterval, visibilityTimer,
          hidden, historyPatched, perfObservers, SajkoReplay, exitMarker, hideMarker, inflight,
          captured, starts, network, exitLog, stopCalled, afterStop,
          recorderInstance, storedSession, constructions, pageLoads, staleSends, maskFaults, exitTransports, unloadRun, syncPayload, lateSuppressed, heartbeatsSent, sessionCreate, fate, apiLog, sajkoConfigPerformance, moves, lastMouseMove, nav, storageThrows, navigatorSendBeacon, online,
          escaped, identity, sent,
          sajkoInstance, loaderInstance, singleton,
          loaders, calls, scriptEl, windowSajkoConfig, appends, loadScriptCalls,
          hook, unloaded>>

\* What is fixed when the page starts: configuration, options and browser.
pageVars == <<pageLoads, sajkoConfigPerformance, CONFIG, options, storageThrows, navigatorSendBeacon, online>>

\* The state of the loader and of the core module.
loaderVars == <<sajkoInstance, loaderInstance, singleton, loaders, calls, scriptEl,
                windowSajkoConfig, appends, loadScriptCalls, hook, unloaded>>

\* ------------------------------------------------------------------ helpers

Min(a, b) == IF a < b THEN a ELSE b

\* events.slice(-n)
SliceLast(s, n) == SubSeq(s, Len(s) - Min(n, Len(s)) + 1, Len(s))

\* No recorder constructed, nothing in the stores.  id 0 stands for no id.
NoIdentity ==
  [id |-> 0, storedId |-> 0, created |-> 0, visitorId |-> 0, visitorStored |-> 0]

\* this.mouseSampleRate, as the constructor sets it.
mouseSampleRate == 50

\* A performance section that asks for what the recorder does anyway.
DefaultPerformance == [mouseSampleRate |-> mouseSampleRate, eventQueueSize |-> eventQueueSize]

\* The values a page supplies for the pointer-move interval and the ceiling.
PerformanceChoices ==
  [mouseSampleRate : {mouseSampleRate, 2 * mouseSampleRate},
   eventQueueSize : {eventQueueSize - 1, eventQueueSize, eventQueueSize + 1}]

\* No pointer move yet.
NoMoves == [first |-> 0, last |-> 0, occurred |-> FALSE, records |-> 0]

\* The page at its first location, no navigation yet.  location: the path,
\* numbered; transitions: changes of location so far; lastPathname: what the
\* location observer saw last; detected: calls of handlePageNavigation;
\* pending: those waiting for their page_exit snapshot; log: the
\* page_navigation records made; entryTimers: pending page_entry timeouts;
\* entrySnapshots: page_entry snapshots being taken.
NoNav ==
  [location |-> 0, transitions |-> 0, lastPathname |-> 0, currentPageNumber |-> 1,
   detected |-> 0, pending |-> {}, log |-> <<>>, entryTimers |-> 0,
   entrySnapshots |-> 0]

\* Nothing sent yet.
NoFate == [delivered |-> {}, dropped |-> {}]

\* The ids of a batch of event records.
Ids(events) == [i \in 1..Len(events) |-> events[i].id]

\* The ids of the records of a batch, as a set.
IdSet(events) == {events[i].id : i \in 1..Len(events)}

\* The records of a payload: id and type, in the payload's order.
Payload(events) == [i \in 1..Len(events) |-> [id |-> events[i].id, type |-> events[i].type]]

\* No handleUnload has run to its end.
NoUnloadRun == [ran |-> FALSE, queue |-> <<>>, scrolled |-> FALSE, flushed |-> <<>>, left |-> 0]

\* The log of handed-over ids, extended by a batch: an id is logged the first
\* time it is handed to a request (a requeued record is sent again).
Handed(log, events) ==
  log \o SelectSeq(Ids(events), LAMBDA id : \A i \in 1..Len(log) : log[i] # id)

\* The record of everything a handler reads or writes.
World ==
  [now |-> now, wasmBridge |-> wasmBridge, isRecording |-> isRecording,
   eventQueue |-> eventQueue, listeners |-> listeners, batchTimers |-> batchTimers,
   heartbeatInterval |-> heartbeatInterval, visibilityTimer |-> visibilityTimer,
   hidden |-> hidden, historyPatched |-> historyPatched,
   perfObservers |-> perfObservers, recPc |-> recPc,
   exitMarker |-> exitMarker, hideMarker |-> hideMarker, inflight |-> inflight,
   captured |-> captured, network |-> network, exitLog |-> exitLog,
   stopCalled |-> stopCalled, afterStop |-> afterStop,
   recorderInstance |-> recorderInstance, storedSession |-> storedSession,
   constructions |-> constructions,
   staleSends |-> staleSends,
   maskFaults |-> maskFaults,
   exitTransports |-> exitTransports,
   unloadRun |-> unloadRun,
   syncPayload |-> syncPayload,
   lateSuppressed |-> lateSuppressed,
   heartbeatsSent |-> heartbeatsSent,
   sessionCreate |-> sessionCreate,
   fate |-> fate,
   apiLog |-> apiLog,
   moves |-> moves,
   lastMouseMove |-> lastMouseMove,
   nav |-> nav,
   escaped |-> escaped,
   identity |-> identity,
   sent |-> sent]

Commit(w) ==
  /\ wasmBridge' = w.wasmBridge
  /\ isRecording' = w.isRecording
  /\ eventQueue' = w.eventQueue
  /\ listeners' = w.listeners
  /\ batchTimers' = w.batchTimers
  /\ heartbeatInterval' = w.heartbeatInterval
  /\ visibilityTimer' = w.visibilityTimer
  /\ hidden' = w.hidden
  /\ historyPatched' = w.historyPatched
  /\ perfObservers' = w.perfObservers
  /\ recPc' = w.recPc
  /\ exitMarker' = w.exitMarker
  /\ hideMarker' = w.hideMarker
  /\ inflight' = w.inflight
  /\ captured' = w.captured
  /\ network' = w.network
  /\ exitLog' = w.exitLog
  /\ stopCalled' = w.stopCalled
  /\ afterStop' = w.afterStop
  /\ recorderInstance' = w.recorderInstance
  /\ storedSession' = w.storedSession
  /\ constructions' = w.constructions
  /\ staleSends' = w.staleSends
  /\ maskFaults' = w.maskFaults
  /\ exitTransports' = w.exitTransports
  /\ unloadRun' = w.unloadRun
  /\ syncPayload' = w.syncPayload
  /\ lateSuppressed' = w.lateSuppressed
  /\ heartbeatsSent' = w.heartbeatsSent
  /\ sessionCreate' = w.sessionCreate
  /\ fate' = w.fate
  /\ apiLog' = w.apiLog
  /\ moves' = w.moves
  /\ lastMouseMove' = w.lastMouseMove
  /\ nav' = w.nav
  /\ escaped' = w.escaped
  /\ identity' = w.identity
  /\ sent' = w.sent

\* ------------------------------------------------ the acceleration bridge

\* What one handler run meets in the bridge: maskPrivateData/optimizeEvents
\* may throw, processBatch may return data, return none, or throw.
Envs == [mask : {"ok", "throw"}, batch : {"data", "nodata", "throw"}]

\* What a flush meets in the bridge: processBatch is called only for a
\* non-empty queue with a ready bridge, and no record is masked.
FlushEnvs(w) ==
  IF w.wasmBridge = "ready" /\ Len(w.eventQueue) > 0
  THEN {e \in Envs : e.mask = "ok"}
  ELSE {[mask |-> "ok", batch |-> "nodata"]}

\* WASMBridge.processBatch: the optimized records as a JSON string, reported
\* as not compressed.
processBatch(env) == [data |-> env.batch = "data", compressed |-> FALSE]

\* WASMBridge.maskPrivateData: masks the fields whose key names a sensitive
\* field (password, email, ssn, credit_card, phone).  The engine's records
\* use the keys type, key, value, target, timestamp: none of them matches.
maskPrivateData(ev) ==
  [ev EXCEPT !.value = IF ev.key \in {"password", "email", "ssn", "credit_card", "phone"}
                       THEN "[MASKED]" ELSE @]

\* WASMBridge.optimizeEvents, on one record: drops null/undefined fields.
optimizeEvent(ev) == [ev EXCEPT !.nulls = FALSE]

\* processEventWithWasm: mask, optimize; the original record on any throw.
processEventWithWasm(ev, env) ==
  IF env.mask = "throw" THEN ev ELSE optimizeEvent(maskPrivateData(ev))

\* ------------------------------------------------------------ the recorder

\* The requests that carry this.sessionId in their URL or body.
SessionCalls == {"batch", "heartbeat", "completion"}

\* A network request of the given kind leaves the page.
Request(w, kind) ==
  [w EXCEPT !.network = @ \cup {kind},
            !.afterStop = IF w.stopCalled THEN @ \cup {"request"} ELSE @,
            !.staleSends = IF /\ kind \in SessionCalls
                              /\ w.identity.id # 0 /\ w.identity.id = w.identity.storedId
                              /\ w.now - w.identity.created >= SessionTtlMs
                           THEN @ \cup {kind} ELSE @]

\* A catch that puts the tail of the failed batch behind the live queue.
requeueAtBack(w, events) ==
  [w EXCEPT !.eventQueue = @ \o SliceLast(events, RequeueTail),
            !.fate.dropped = @ \cup (IdSet(events) \ IdSet(SliceLast(events, RequeueTail)))]

\* The catch of flushEvents: the last records of the failed batch are put
\* back in front of the live queue; the older ones are gone.
requeue(w, events) ==
  [w EXCEPT !.eventQueue = SliceLast(events, RequeueTail) \o @,
            !.fate.dropped = @ \cup (IdSet(events) \ IdSet(SliceLast(events, RequeueTail)))]

\* A flushEvents that copies the queue and leaves it as it is.
flushEventsKeepsQueue(w, env) ==
  IF Len(w.eventQueue) = 0 THEN w
  ELSE LET events == w.eventQueue
       IN IF w.wasmBridge = "ready" /\ env.batch = "throw"
          THEN [w EXCEPT !.eventQueue = SliceLast(events, RequeueTail) \o @,
                         !.fate.dropped = @ \cup (IdSet(events) \
                                                   IdSet(SliceLast(events, RequeueTail)))]
          ELSE LET tagged == w.wasmBridge = "ready" /\ env.batch = "data"
               IN [Request(w, "batch") EXCEPT
                     !.inflight = @ \cup {[events |-> events, compressed |-> tagged,
                                         compacted |-> tagged /\ processBatch(env).compressed]},
                     !.sent = Handed(@, events)]

\* flushEvents: the queue is copied and replaced by an empty one.  With a
\* ready bridge the batch goes through processBatch: data is sent tagged as
\* compressed, a throw lands in the catch and requeues the tail; otherwise
\* the batch is sent as JSON.  The response arrives in BatchOk / BatchFail.
flushEvents(w, env) ==
  IF Len(w.eventQueue) = 0 THEN w
  ELSE LET events == w.eventQueue
           w1 == [w EXCEPT !.eventQueue = <<>>]
       IN IF w.wasmBridge = "ready" /\ env.batch = "throw"
          THEN requeue(w1, events)
          ELSE LET tagged == w.wasmBridge = "ready" /\ env.batch = "data"
               IN [Request(w1, "batch") EXCEPT
                     !.inflight = @ \cup {[events |-> events, compressed |-> tagged,
                                         compacted |-> tagged /\ processBatch(env).compressed]},
                     !.sent = Handed(@, events)]

\* An addEvent without the catch around the bridge's calls: the record of a
\* call that throws is lost.
addEventDropsOnThrow(w, ev, env) ==
  IF ~w.isRecording THEN w
  ELSE IF w.wasmBridge = "ready" /\ env.mask = "throw" THEN w
  ELSE LET e == IF w.wasmBridge = "ready" THEN processEventWithWasm(ev, env) ELSE ev
           w1 == [w EXCEPT !.eventQueue = Append(@, [e EXCEPT !.id = w.captured + 1]),
                           !.captured = @ + 1,
                           !.afterStop = IF w.stopCalled THEN @ \cup {"capture"} ELSE @]
       IN IF Len(w1.eventQueue) >= eventQueueSize THEN flushEvents(w1, env) ELSE w1

\* addEvent: dropped unless recording; processed by a ready bridge; pushed;
\* the queue is flushed when it has reached the ceiling.
addEvent(w, ev, env) ==
  IF ~w.isRecording THEN w
  ELSE LET e == IF w.wasmBridge = "ready" THEN processEventWithWasm(ev, env) ELSE ev
           w1 == [w EXCEPT !.eventQueue = Append(@, [e EXCEPT !.id = w.captured + 1]),
                           !.captured = @ + 1,
                           !.afterStop = IF w.stopCalled THEN @ \cup {"capture"} ELSE @]
       IN IF Len(w1.eventQueue) >= eventQueueSize THEN flushEvents(w1, env) ELSE w1

\* recordEvent: pushed when recording; no look at the queue's length.
recordEvent(w, ev) ==
  IF w.isRecording
  THEN [w EXCEPT !.eventQueue = Append(@, [ev EXCEPT !.id = w.captured + 1]),
                 !.captured = @ + 1,
                 !.afterStop = IF w.stopCalled THEN @ \cup {"capture"} ELSE @]
  ELSE w

\* A fresh event record.  key: the name of the payload field that holds the
\* user's content; sensitive: the target matched shouldMaskInput.
Event(w, type, key, value, sensitive, nulls) ==
  [id |-> 0, type |-> type, timestamp |-> w.now, key |-> key, value |-> value,
   sensitive |-> sensitive, nulls |-> nulls]

\* shouldMaskInput: type password, or a name containing password, credit or card.
Elements == [type : {"password", "text"}, name : {"card", "comment"}]
shouldMaskInput(el) == el.type = "password" \/ el.name \in {"password", "credit", "card"}

\* trackFlowEvent: a fire-and-forget request to /api/flows/track.
trackFlowEvent(w) == Request(w, "flow")

\* handleClick
handleClick(w, env) ==
  trackFlowEvent(addEvent(w, Event(w, "mouse_click", "none", "none", FALSE, FALSE), env))

\* performance.now(): milliseconds since the page's time origin, the initial
\* state.
performanceNow(w) == w.now

\* handleMouseMove: dropped when less than this.mouseSampleRate after the last
\* one taken; otherwise the record goes through addEvent and the time is kept.
handleMouseMove(w, env) ==
  LET t == performanceNow(w)
  IN IF t - w.lastMouseMove < mouseSampleRate THEN w
     ELSE [addEvent(w, Event(w, "mouse_move", "none", "none", FALSE, FALSE), env)
             EXCEPT !.lastMouseMove = t]

\* handleKeyboard: the key pressed, whatever the target.
handleKeyboard(w, el, env) ==
  addEvent(w, Event(w, "keyboard_input", "key", "raw", shouldMaskInput(el), FALSE), env)

\* handleInput: the target's value, or the sentinel for a masked target.
handleInput(w, el, env) ==
  addEvent(w, Event(w, "form_input", "value",
                    IF shouldMaskInput(el) THEN "[MASKED]" ELSE "raw",
                    shouldMaskInput(el), FALSE), env)

\* handleFormSubmit: formId and formAction are null when the form has none.
handleFormSubmit(w, nulls, env) ==
  trackFlowEvent(addEvent(w, Event(w, "form_submit", "none", "none", FALSE, nulls), env))

\* flushEventsSync: the queue is copied, emptied and sent by synchronous XHR,
\* whose send throws when the collector cannot be reached; the retry throws
\* the same way and the batch is given up.
flushEventsSync(w) ==
  IF Len(w.eventQueue) = 0 THEN w
  ELSE LET events == w.eventQueue
           w1 == Request([w EXCEPT !.eventQueue = <<>>, !.sent = Handed(@, events),
                                   !.syncPayload = Payload(events),
                                   !.exitTransports = @ \cup {[send |-> "batch", transport |-> "xhr"]}],
                         "batch")
       IN IF online
          THEN [w1 EXCEPT !.fate.delivered = @ \cup IdSet(events)]
          ELSE [w1 EXCEPT !.fate.dropped = @ \cup IdSet(events)]

\* sendFlowExitEvent: returns at once unless this.sessionId, this.visitorId
\* and this.websiteId are all set; the recorder never assigns this.websiteId.
recorderWebsiteId == FALSE
sendFlowExitEvent(w) ==
  IF ~recorderWebsiteId THEN w ELSE Request(w, "flowExit")

\* A synchronous XHR send throws when the collector cannot be reached; the
\* completion call is sent that way when navigator.sendBeacon is missing.
XhrThrows == ~navigatorSendBeacon /\ ~online

\* sendSessionCompletion: the completion call (by beacon, or by synchronous
\* XHR outside any try), then sendFlowExitEvent.  by: the calling handler,
\* which an exception thrown here leaves at once.
sendSessionCompletion(w, by) ==
  LET wt == [w EXCEPT !.exitTransports = @ \cup
                        {[send |-> "completion",
                          transport |-> IF navigatorSendBeacon THEN "beacon" ELSE "xhr"]}]
  IN IF XhrThrows
     THEN [wt EXCEPT !.escaped = @ \cup {by}]
     ELSE sendFlowExitEvent(
            [Request(wt, "completion") EXCEPT !.exitLog = Append(@, [t |-> w.now, by |-> by])])

\* Pushed straight onto the queue by the exit handlers.
push(w, ev) ==
  [w EXCEPT !.eventQueue = Append(@, [ev EXCEPT !.id = w.captured + 1]),
            !.captured = @ + 1]

\* The early return of an exit handler: nothing is sent.  Noted when the last
\* exit send of the session is more than ExitDedupMs old.
skipDuplicate(w, by) ==
  IF w.exitLog # <<>> /\ w.now - w.exitLog[Len(w.exitLog)].t > ExitDedupMs
  THEN [w EXCEPT !.lateSuppressed = @ \cup {by}]
  ELSE w

\* A handleUnload that flushes before it pushes the terminal records.
handleUnloadFlushesFirst(w, scrolled) ==
  IF w.exitMarker >= 0 /\ w.now - w.exitMarker < ExitDedupMs
  THEN skipDuplicate(w, "unload")
  ELSE LET w0 == flushEventsSync([w EXCEPT !.syncPayload = <<>>])
           w1 == IF scrolled
                 THEN push(w0, Event(w, "scroll", "none", "none", FALSE, FALSE))
                 ELSE w0
           w2 == push(w1, Event(w, "page_unload", "none", "none", FALSE, FALSE))
           w3 == sendSessionCompletion(w2, "unload")
           w4 == [w3 EXCEPT !.unloadRun =
                    [ran |-> TRUE, queue |-> Payload(w.eventQueue), scrolled |-> scrolled,
                     flushed |-> w0.syncPayload, left |-> Len(w3.eventQueue)]]
       IN IF XhrThrows THEN w4 ELSE [w4 EXCEPT !.exitMarker = w.now]

\* handleUnload (beforeunload, unload): suppressed by a marker of this session
\* younger than ExitDedupMs; otherwise the final scroll position (if scrolled)
\* and the page_unload record are pushed, the queue is flushed synchronously,
\* the completion call is sent and the marker is written.
handleUnload(w, scrolled) ==
  IF w.exitMarker >= 0 /\ w.now - w.exitMarker < ExitDedupMs
  THEN skipDuplicate(w, "unload")
  ELSE LET w1 == IF scrolled
                 THEN push(w, Event(w, "scroll", "none", "none", FALSE, FALSE))
                 ELSE w
           w2 == push(w1, Event(w, "page_unload", "none", "none", FALSE, FALSE))
           wf == flushEventsSync([w2 EXCEPT !.syncPayload = <<>>])
           w3 == sendSessionCompletion(wf, "unload")
           w4 == [w3 EXCEPT !.unloadRun =
                    [ran |-> TRUE, queue |-> Payload(w.eventQueue), scrolled |-> scrolled,
                     flushed |-> wf.syncPayload, left |-> Len(w3.eventQueue)]]
       IN IF XhrThrows THEN w4 ELSE [w4 EXCEPT !.exitMarker = w.now]

\* handlePageHide: suppressed by the marker of this page URL, whatever its
\* age; otherwise the page_hide record is pushed, the queue is flushed
\* synchronously, the completion call is sent and the marker is written.
handlePageHide(w) ==
  IF w.hideMarker THEN skipDuplicate(w, "pagehide")
  ELSE LET w1 == push(w, Event(w, "page_hide", "none", "none", FALSE, FALSE))
           w2 == sendSessionCompletion(flushEventsSync(w1), "pagehide")
       IN IF XhrThrows THEN w2 ELSE [w2 EXCEPT !.hideMarker = TRUE]

\* handleVisibilityChange with a visible branch that leaves the timer pending.
handleVisibilityChangeKeepsTimer(w, nowHidden, env) ==
  LET ev == Event(w, "visibility_change", "none", "none", FALSE, FALSE)
      wh == [w EXCEPT !.hidden = nowHidden]
  IN IF nowHidden
     THEN LET w1 == IF wh.wasmBridge = "ready" /\ wh.isRecording
                    THEN addEvent(flushEvents(wh, env), ev, env)
                    ELSE flushEvents(addEvent(wh, ev, env), env)
          IN [w1 EXCEPT !.visibilityTimer = TRUE]
     ELSE addEvent(wh, ev, env)

\* handleVisibilityChange: addEvent waits for the bridge, so a ready bridge
\* pushes the record after the handler's own flush; hidden starts (restarts)
\* the abandonment timer, visible cancels it.
handleVisibilityChange(w, nowHidden, env) ==
  LET ev == Event(w, "visibility_change", "none", "none", FALSE, FALSE)
      wh == [w EXCEPT !.hidden = nowHidden]
  IN IF nowHidden
     THEN LET w1 == IF wh.wasmBridge = "ready" /\ wh.isRecording
                    THEN addEvent(flushEvents(wh, env), ev, env)
                    ELSE flushEvents(addEvent(wh, ev, env), env)
          IN [w1 EXCEPT !.visibilityTimer = TRUE]
     ELSE [addEvent(wh, ev, env) EXCEPT !.visibilityTimer = FALSE]

\* stop: the flag is cleared, the queue flushed, the observers disconnected
\* and the listeners removed.  No timer is cleared and the history methods
\* stay overridden.
stop(w, env) ==
  [flushEvents([w EXCEPT !.isRecording = FALSE], env) EXCEPT
     !.listeners = 0, !.stopCalled = TRUE]

\* setupEventListeners: one more registration of every signal, one more
\* layer over history.pushState/replaceState.
setupEventListeners(w) ==
  [w EXCEPT !.listeners = @ + 1, !.historyPatched = @ + 1,
            !.nav.lastPathname = w.nav.location]

\* captureSnapshot, after its waits for the stylesheets and the assets: the
\* dom_snapshot record goes through addEvent.
captureSnapshot(w, env) ==
  addEvent(w, Event(w, "dom_snapshot", "none", "none", FALSE, FALSE), env)

\* handlePageNavigation, up to its wait for the page_exit snapshot (whose
\* stylesheets are fetched).  Locations are of one domain: no exit send.
handlePageNavigation(w, navigationType) ==
  [w EXCEPT !.nav.detected = @ + 1,
            !.nav.pending = @ \cup {[seq |-> w.nav.detected + 1, type |-> navigationType,
                                     transition |-> w.nav.transitions]}]

\* handlePageNavigation, resumed when the page_exit snapshot is taken: the
\* page_navigation record takes the current page number and goes through
\* addEvent, the flow event is tracked, the page number is incremented, and
\* for the history and route-change types the page_entry timeout is set.
handlePageNavigationResumed(w, n, env) ==
  LET w0 == captureSnapshot(w, env)
      w1 == addEvent(w0, Event(w0, "page_navigation", "none", "none", FALSE, FALSE), env)
      w2 == IF w0.isRecording
            THEN [w1 EXCEPT !.nav.log = Append(@, [seq |-> n.seq, type |-> n.type,
                                                   transition |-> n.transition,
                                                   pageNumber |-> w.nav.currentPageNumber])]
            ELSE w1
      w3 == trackFlowEvent(w2)
  IN [w3 EXCEPT !.nav.currentPageNumber = @ + 1,
                !.nav.pending = @ \ {n},
                !.nav.entryTimers = IF n.type \in {"spa_route_change", "pushstate", "replacestate"}
                                    THEN @ + 1 ELSE @]

\* history.pushState as overridden, after the original call has changed the
\* location: the change of URL is handled as a navigation.
pushStateOverride(w) == handlePageNavigation(w, "pushstate")

\* handlePopState
handlePopState(w) == handlePageNavigation(w, "popstate")

\* The location observer's callback on a structural change of the document:
\* a path other than the one seen last is handled as a navigation.
spaObserverCallback(w) ==
  IF w.nav.location # w.nav.lastPathname
  THEN [handlePageNavigation(w, "spa_route_change") EXCEPT
          !.nav.lastPathname = w.nav.location]
  ELSE w

\* startBatchTimer: a new interval; its id is not kept.
startBatchTimer(w) == [w EXCEPT !.batchTimers = @ + 1]

\* sendFlowHeartbeat: the heartbeat request, fire and forget.
sendFlowHeartbeat(w) ==
  [Request(w, "heartbeat") EXCEPT
     !.heartbeatsSent = @ \cup {[isRecording |-> w.isRecording, hidden |-> w.hidden]}]

\* A heartbeat callback that does not look at document.hidden.
heartbeatCallbackIgnoresHidden(w) ==
  IF w.isRecording THEN sendFlowHeartbeat(w) ELSE w

\* The callback of the heartbeat interval: a heartbeat when recording and the
\* document is not hidden.
heartbeatCallback(w) ==
  IF w.isRecording /\ ~w.hidden THEN sendFlowHeartbeat(w) ELSE w

\* startFlowHeartbeat: the previous interval is cleared, a new one is set.
startFlowHeartbeat(w) == [w EXCEPT !.heartbeatInterval = TRUE]

\* startPerformanceMonitoring: the paint and resource observers.
startPerformanceMonitoring(w) == [w EXCEPT !.perfObservers = @ + 1]

\* startRecording; tti: capturePerformanceMetrics finds a time-to-interactive
\* and records it.  (The initial snapshot is content capture and left out.)
startRecording(w, tti) ==
  LET w1 == [w EXCEPT !.isRecording = TRUE,
                      !.afterStop = IF w.stopCalled THEN @ \cup {"recording"} ELSE @]
      w2 == startFlowHeartbeat(startBatchTimer(
              startPerformanceMonitoring(setupEventListeners(w1))))
      w3 == trackFlowEvent(w2)
  IN IF tti
     THEN recordEvent(w3, Event(w3, "performance_mark", "none", "none", FALSE, FALSE))
     ELSE w3

\* startRecordingFallback
startRecordingFallback(w) ==
  startBatchTimer(setupEventListeners(
    [w EXCEPT !.isRecording = TRUE,
              !.afterStop = IF w.stopCalled THEN @ \cup {"recording"} ELSE @]))

\* A getOrCreateSessionId that reuses a session of exactly the limit age.
getOrCreateSessionIdAtLimit(w) ==
  IF w.storedSession /\ w.now - w.identity.created <= SessionTtlMs
  THEN [w EXCEPT !.identity.id = w.identity.storedId]
  ELSE LET sessionId == w.identity.storedId + 1
       IN [w EXCEPT !.identity.id = sessionId, !.identity.storedId = sessionId,
                    !.identity.created = w.now, !.storedSession = TRUE]

\* A getOrCreateSessionId that stores the time of every reuse as the
\* session's creation time.
getOrCreateSessionIdRefreshes(w) ==
  IF w.storedSession /\ w.now - w.identity.created < SessionTtlMs
  THEN [w EXCEPT !.identity.id = w.identity.storedId, !.identity.created = w.now]
  ELSE LET sessionId == w.identity.storedId + 1
       IN [w EXCEPT !.identity.id = sessionId, !.identity.storedId = sessionId,
                    !.identity.created = w.now, !.storedSession = TRUE]

\* getOrCreateSessionId: the stored session is returned when it is younger
\* than SessionTtlMs; otherwise a new id is made and stored with the time.
getOrCreateSessionId(w) ==
  IF w.storedSession /\ w.now - w.identity.created < SessionTtlMs
  THEN [w EXCEPT !.identity.id = w.identity.storedId]
  ELSE LET sessionId == w.identity.storedId + 1
       IN [w EXCEPT !.identity.id = sessionId, !.identity.storedId = sessionId,
                    !.identity.created = w.now, !.storedSession = TRUE]

\* A getOrCreateVisitorId that makes and stores a new id at every call.
getOrCreateVisitorIdAlwaysNew(w) ==
  LET visitorId == w.identity.visitorStored + 1
  IN [w EXCEPT !.identity.visitorId = visitorId, !.identity.visitorStored = visitorId]

\* getOrCreateVisitorId: the stored id, or a new one that is stored.  id 0
\* stands for no id.
getOrCreateVisitorId(w) ==
  IF w.identity.visitorStored # 0
  THEN [w EXCEPT !.identity.visitorId = w.identity.visitorStored]
  ELSE LET visitorId == w.identity.visitorStored + 1
       IN [w EXCEPT !.identity.visitorId = visitorId, !.identity.visitorStored = visitorId]

\* new SajkoSessionRecorderV4(), published as window.__sajkoRecorderV4Instance:
\* the session id is read from, or written to, sessionStorage; the recorder
\* starts not recording, with an empty queue and no bridge.
construct(w) ==
  [getOrCreateVisitorId(getOrCreateSessionId(w)) EXCEPT
     !.recorderInstance = TRUE, !.constructions = @ + 1,
     !.isRecording = FALSE, !.eventQueue = <<>>, !.wasmBridge = "null",
     !.nav.currentPageNumber = 1, !.lastMouseMove = 0]

\* initialize, up to its first wait: without consent or without a website id
\* it returns false; otherwise a new bridge is created and its initialize()
\* awaited.  (typeof WASMBridge is defined whenever a recorder exists: init()
\* constructs it only after loadDependencies.)
initialize(w) ==
  IF ~CONFIG.hasUserConsent \/ ~CONFIG.websiteId THEN w
  ELSE [w EXCEPT !.wasmBridge = "notReady", !.recPc = "bridgeInit"]

\* initialize, resumed after wasmBridge.initialize(): on success createSession
\* posts the session; a throw lands in the catch, which starts the fallback.
initializeAfterBridge(w, ok) ==
  IF ok
  THEN [Request([w EXCEPT !.wasmBridge = "ready"], "session") EXCEPT
          !.recPc = "createSession"]
  ELSE [startRecordingFallback(w) EXCEPT !.recPc = "none"]

\* initialize, resumed after createSession: recording starts; a failed
\* session creation throws into the same catch.
initializeAfterSession(w, ok, tti) ==
  IF ok
  THEN [startRecording(w, tti) EXCEPT !.recPc = "none", !.sessionCreate = "ok"]
  ELSE [startRecordingFallback(w) EXCEPT !.recPc = "none", !.sessionCreate = "failed"]

\* getMetrics: read from the recorder at the call.
getMetrics(w) ==
  [isRecording |-> w.isRecording, queueSize |-> Len(w.eventQueue),
   hasWasm |-> w.wasmBridge = "ready"]

\* init(), after recorder.initialize() has settled: the API is exposed,
\* isRecording being copied from the recorder at this moment.
Publish(w) ==
  /\ SajkoReplay' = [present |-> TRUE, isRecording |-> w.isRecording,
                     gen |-> SajkoReplay.gen + 1]
  /\ initPc' = "published"

\* The handler h run once per registration of the signal.
RECURSIVE Dispatch(_, _, _)
Dispatch(h(_), k, w) == IF k = 0 THEN w ELSE Dispatch(h, k - 1, h(w))

Room(n) == captured + n <= MaxEvents

\* ------------------------------------------------------------------ actions

\* init(), after loadDependencies: the recorder is constructed and
\* initialize() called.  The constructor reads the stores: when they throw,
\* the exception lands in init()'s catch, which logs "Recording disabled".
ConstructAndInitialize ==
  IF storageThrows
  THEN /\ Commit(World)
       /\ initPc' = "disabled"
       /\ UNCHANGED SajkoReplay
  ELSE LET w == initialize(construct(World))
       IN /\ Commit(w)
          /\ IF w.recPc = "none" THEN Publish(w)
             ELSE initPc' = "initializing" /\ UNCHANGED SajkoReplay

\* init(): loadDependencies fetches wasm-bridge.js unless window.WASMBridge
\* is defined (window.Go is defined by the head of the same file); then the
\* recorder is constructed and initialize() called.
RunInit ==
  /\ initPc = "start"
  /\ IF ~windowWASMBridge
     THEN /\ Commit(Request(World, "script"))
          /\ initPc' = "loadingBridge"
          /\ UNCHANGED SajkoReplay
     ELSE ConstructAndInitialize
  /\ UNCHANGED <<pageVars, now, windowWASMBridge, starts, loaderVars>>

\* wasm-bridge.js has loaded: init() goes on to initialize().
BridgeScriptLoaded ==
  /\ initPc = "loadingBridge"
  /\ windowWASMBridge' = TRUE
  /\ ConstructAndInitialize
  /\ UNCHANGED <<pageVars, now, starts, loaderVars>>

\* wasm-bridge.js failed to load: loadDependencies throws, init() logs
\* "Recording disabled" and ends.
BridgeScriptFailed ==
  /\ initPc = "loadingBridge"
  /\ initPc' = "disabled"
  /\ UNCHANGED <<pageVars, now, recPc, windowWASMBridge, wasmBridge, isRecording,
                 eventQueue, listeners, batchTimers, heartbeatInterval,
                 visibilityTimer, hidden, historyPatched, perfObservers, SajkoReplay,
                 exitMarker, hideMarker, inflight, captured, starts, network,
                 exitLog, stopCalled, afterStop, recorderInstance, storedSession, constructions, staleSends, maskFaults, exitTransports, unloadRun, syncPayload, lateSuppressed, heartbeatsSent, sessionCreate, fate, apiLog, moves, lastMouseMove, nav, escaped, identity,
                 sent,
                 loaderVars>>

\* wasmBridge.initialize() settles.
BridgeInitSettles ==
  /\ recPc = "bridgeInit"
  /\ \E ok \in BOOLEAN :
       LET w == initializeAfterBridge(World, ok)
       IN /\ Commit(w)
          /\ IF w.recPc = "none" /\ initPc = "initializing" THEN Publish(w)
             ELSE UNCHANGED <<initPc, SajkoReplay>>
  /\ UNCHANGED <<pageVars, now, windowWASMBridge, starts, loaderVars>>

\* The session-create request settles.
SessionCreateSettles ==
  /\ recPc = "createSession"
  /\ \E ok \in BOOLEAN, tti \in BOOLEAN :
       /\ (ok /\ tti) => Room(1)
       /\ LET w == initializeAfterSession(World, ok, tti)
          IN /\ Commit(w)
             /\ IF initPc = "initializing" THEN Publish(w)
                ELSE UNCHANGED <<initPc, SajkoReplay>>
  /\ UNCHANGED <<pageVars, now, windowWASMBridge, starts, loaderVars>>

\* SajkoReplay.start(): recorder.initialize() again.
Start ==
  /\ SajkoReplay.present /\ recPc = "none" /\ starts < MaxStarts
  /\ starts' = starts + 1
  /\ Commit(initialize(World))
  /\ UNCHANGED <<pageVars, now, initPc, windowWASMBridge, SajkoReplay, loaderVars>>

\* SajkoReplay.stop()
Stop ==
  /\ SajkoReplay.present
  /\ \E env \in FlushEnvs(World) : Commit(stop(World, env))
  /\ UNCHANGED <<pageVars, now, initPc, windowWASMBridge, SajkoReplay, starts, loaderVars>>

\* SajkoReplay.flush()
Flush ==
  /\ SajkoReplay.present
  /\ \E env \in FlushEnvs(World) : Commit(flushEvents(World, env))
  /\ UNCHANGED <<pageVars, now, initPc, windowWASMBridge, SajkoReplay, starts, loaderVars>>

Frame ==
  UNCHANGED <<pageVars, now, initPc, windowWASMBridge, SajkoReplay, starts, loaderVars>>

\* The application calls history.pushState with another URL.
PushState ==
  /\ nav.transitions < MaxTransitions
  /\ nav.detected + historyPatched <= MaxDetections
  /\ Commit(Dispatch(pushStateOverride, historyPatched,
                     [World EXCEPT !.nav.location = nav.transitions + 1,
                                   !.nav.transitions = @ + 1]))
  /\ Frame

\* The user goes back in the history: popstate.
PopState ==
  /\ nav.location > 0
  /\ nav.transitions < MaxTransitions
  /\ nav.detected + listeners <= MaxDetections
  /\ Commit(Dispatch(handlePopState, listeners,
                     [World EXCEPT !.nav.location = @ - 1, !.nav.transitions = @ + 1]))
  /\ Frame

\* The document changes structurally while the location observer is connected.
DomMutation ==
  /\ listeners > 0
  /\ nav.location # nav.lastPathname
  /\ nav.detected + listeners <= MaxDetections
  /\ Commit(Dispatch(spaObserverCallback, listeners, World))
  /\ Frame

\* The page_exit snapshot of a waiting handlePageNavigation is taken.
NavSnapshotDone ==
  /\ captured + 2 <= MaxNavEvents
  /\ \E n \in nav.pending, env \in Envs :
       Commit(handlePageNavigationResumed(World, n, env))
  /\ Frame

\* A page_entry timeout runs: the snapshot is begun and the page view tracked.
PageEntryTimeout ==
  /\ nav.entryTimers > 0
  /\ Commit(trackFlowEvent([World EXCEPT !.nav.entryTimers = @ - 1,
                                         !.nav.entrySnapshots = @ + 1]))
  /\ Frame

\* A page_entry snapshot is taken.
EntrySnapshotDone ==
  /\ nav.entrySnapshots > 0
  /\ captured + 1 <= MaxNavEvents
  /\ \E env \in Envs :
       Commit(captureSnapshot([World EXCEPT !.nav.entrySnapshots = @ - 1], env))
  /\ Frame

\* The pointer moves over the page.
PointerMove ==
  /\ listeners > 0 /\ Room(1)
  /\ \E env \in Envs :
       LET w == Dispatch(LAMBDA x : handleMouseMove(x, env), listeners, World)
       IN Commit([w EXCEPT !.moves = [first |-> IF moves.occurred THEN @.first ELSE now,
                                      last |-> now,
                                      occurred |-> TRUE,
                                      records |-> @.records + (w.captured - captured)]])
  /\ Frame

\* Time passes between two pointer moves.
MoveTick ==
  /\ now + MoveGapMs <= MaxMoveNow
  /\ now' = now + MoveGapMs
  /\ UNCHANGED <<pageVars, initPc, windowWASMBridge, SajkoReplay, starts, loaderVars>>
  /\ Commit(World)

\* Time passes between two exit signals.
ExitTick ==
  /\ now + TickMs <= MaxExitNow
  /\ now' = now + TickMs
  /\ UNCHANGED <<pageVars, initPc, windowWASMBridge, SajkoReplay, starts, loaderVars>>
  /\ Commit(World)

\* A click on the page.
Click ==
  /\ listeners > 0 /\ Room(listeners)
  /\ \E env \in Envs :
       Commit(Dispatch(LAMBDA w : handleClick(w, env), listeners, World))
  /\ Frame

\* A key pressed in an element.
Keydown ==
  /\ listeners > 0 /\ Room(listeners)
  /\ \E el \in Elements, env \in Envs :
       Commit(Dispatch(LAMBDA w : handleKeyboard(w, el, env), listeners, World))
  /\ Frame

\* Input typed into a form field.
Input ==
  /\ listeners > 0 /\ Room(listeners)
  /\ \E el \in Elements, env \in Envs :
       Commit(Dispatch(LAMBDA w : handleInput(w, el, env), listeners, World))
  /\ Frame

\* A form is submitted.
Submit ==
  /\ listeners > 0 /\ Room(listeners)
  /\ \E nulls \in BOOLEAN, env \in Envs :
       Commit(Dispatch(LAMBDA w : handleFormSubmit(w, nulls, env), listeners, World))
  /\ Frame

\* beforeunload or unload: both are bound to handleUnload.
UnloadSignal ==
  /\ listeners > 0 /\ Room(2)
  /\ \E scrolled \in BOOLEAN :
       Commit(Dispatch(LAMBDA w : handleUnload(w, scrolled), listeners, World))
  /\ Frame

\* pagehide
PageHideSignal ==
  /\ listeners > 0 /\ Room(1)
  /\ Commit(Dispatch(handlePageHide, listeners, World))
  /\ Frame

\* visibilitychange: the page becomes hidden, or visible again.
VisibilityChange ==
  /\ listeners > 0 /\ Room(listeners)
  /\ \E env \in Envs :
       Commit(Dispatch(LAMBDA w : handleVisibilityChange(w, ~hidden, env),
                       listeners, World))
  /\ Frame

\* The page becomes hidden or visible while no visibilitychange listener is
\* registered: document.hidden changes and no handler runs.
VisibilityUnobserved ==
  /\ listeners = 0
  /\ Commit([World EXCEPT !.hidden = ~hidden])
  /\ Frame

\* A form is submitted while recording with a ready bridge whose
\* maskPrivateData or optimizeEvents throws.
SubmitBridgeThrows ==
  /\ listeners > 0 /\ Room(listeners)
  /\ isRecording /\ wasmBridge = "ready"
  /\ \E nulls \in BOOLEAN, env \in {e \in Envs : e.mask = "throw"} :
       LET w == Dispatch(LAMBDA v : handleFormSubmit(v, nulls, env), listeners, World)
       IN Commit([w EXCEPT !.maskFaults = @ \cup
                    {[before |-> captured, runs |-> listeners, after |-> w.captured,
                      nulls |-> nulls]}])
  /\ Frame

\* A PerformanceObserver callback: a paint or resource entry is recorded.
PerformanceEntry ==
  /\ perfObservers > 0 /\ Room(1)
  /\ Commit(recordEvent(World, Event(World, "performance_mark", "none", "none", FALSE, FALSE)))
  /\ Frame

\* A callback run after stop() is noted.
TimerRuns(w) ==
  [w EXCEPT !.afterStop = IF w.stopCalled /\ ~w.isRecording THEN @ \cup {"timer"} ELSE @]

\* One tick of a batch interval: a non-empty queue is flushed.
BatchTimerTick ==
  /\ batchTimers > 0
  /\ \E env \in FlushEnvs(World) : Commit(flushEvents(TimerRuns(World), env))
  /\ Frame

\* One tick of the heartbeat interval: sent when recording and visible.
HeartbeatTick ==
  /\ heartbeatInterval
  /\ Commit(heartbeatCallback(TimerRuns(World)))
  /\ Frame

\* The abandonment timeout expires: sendFlowExitEvent('tab_hidden_timeout').
VisibilityTimeout ==
  /\ visibilityTimer
  /\ Commit([sendFlowExitEvent(TimerRuns(World)) EXCEPT !.visibilityTimer = FALSE])
  /\ Frame

\* A batch request gets an OK response.
BatchOk ==
  /\ \E b \in inflight :
       Commit([World EXCEPT !.inflight = @ \ {b},
                            !.fate.delivered = @ \cup IdSet(b.events)])
  /\ Frame

\* A batch request fails (network error or response not OK): the catch of
\* flushEvents puts the batch's tail back at the front of the queue.
BatchFail ==
  /\ \E b \in inflight :
       Commit(requeue([World EXCEPT !.inflight = @ \ {b}], b.events))
  /\ Frame

\* Time passes.
Tick ==
  /\ now + TickMs <= MaxNow
  /\ now' = now + TickMs
  /\ UNCHANGED <<pageVars, initPc, recPc, windowWASMBridge, wasmBridge, isRecording,
                 eventQueue, listeners, batchTimers, heartbeatInterval,
                 visibilityTimer, hidden, historyPatched, perfObservers, SajkoReplay,
                 exitMarker, hideMarker, inflight, captured, starts, network,
                 exitLog, stopCalled, afterStop, recorderInstance, storedSession, constructions, staleSends, maskFaults, exitTransports, unloadRun, syncPayload, lateSuppressed, heartbeatsSent, sessionCreate, fate, apiLog, moves, lastMouseMove, nav, escaped, identity,
                 sent,
                 loaderVars>>

\* --------------------------------------------- the loader and the core API

\* A SajkoLoader never constructed, a call of init() never made, no script.
NoLoader == [promise |-> "null", phase |-> "idle", attempt |-> 0, isLoaded |-> FALSE]
NoCall == [pc |-> "idle", loader |-> 0, handle |-> 0, late |-> FALSE]
NoScript == [state |-> "none", owner |-> 0, attempt |-> 0]

\* A component using useSajko before its first effect: useState's initial
\* state, initialized.current false.  effect: the effect is set up ("active")
\* or has been cleaned up; owner: the effect set up is the one whose closure
\* holds `mounted`; call: the call of init() the closure awaits.
NoHook ==
  [effect |-> "none", runs |-> 0, initialized |-> FALSE, mounted |-> FALSE,
   owner |-> FALSE, call |-> 0, pc |-> "none", initCalls |-> 0,
   state |-> [sajko |-> 0, loading |-> TRUE, error |-> FALSE]]

\* The record of everything the loader and the core init() read or write.
LWorld ==
  [sajkoInstance |-> sajkoInstance, loaderInstance |-> loaderInstance,
   singleton |-> singleton, loaders |-> loaders, calls |-> calls,
   scriptEl |-> scriptEl, windowSajkoConfig |-> windowSajkoConfig,
   appends |-> appends, loadScriptCalls |-> loadScriptCalls,
   hook |-> hook,
   replay |-> SajkoReplay]

LCommit(lw) ==
  /\ sajkoInstance' = lw.sajkoInstance
  /\ loaderInstance' = lw.loaderInstance
  /\ singleton' = lw.singleton
  /\ loaders' = lw.loaders
  /\ calls' = lw.calls
  /\ scriptEl' = lw.scriptEl
  /\ windowSajkoConfig' = lw.windowSajkoConfig
  /\ appends' = lw.appends
  /\ loadScriptCalls' = lw.loadScriptCalls
  /\ hook' = lw.hook

\* isScriptLoaded
isScriptLoaded(lw, l) == lw.loaders[l].isLoaded /\ lw.replay.present

\* init() resumed with the handle load() returned: sajkoInstance is assigned.
returnHandle(lw, c) ==
  [lw EXCEPT !.calls[c].pc = "returned", !.calls[c].handle = lw.replay.gen,
             !.sajkoInstance = lw.replay.gen]

\* waitForReplay, entered: window.SajkoReplay is returned if it is there,
\* otherwise it is polled.
waitForReplay(lw, c) ==
  IF lw.replay.present THEN returnHandle(lw, c) ELSE [lw EXCEPT !.calls[c].pc = "waitReplay"]

\* The scriptPromise of loader l has settled: every load() awaiting it goes
\* on to waitForReplay, or rejects with it.
RECURSIVE resume(_, _, _)
resume(lw, l, c) ==
  IF c > MaxCalls THEN lw
  ELSE IF lw.calls[c].pc = "awaitScript" /\ lw.calls[c].loader = l
       THEN resume(IF lw.loaders[l].promise = "resolved"
                   THEN waitForReplay(lw, c)
                   ELSE [lw EXCEPT !.calls[c].pc = "rejected"], l, c + 1)
       ELSE resume(lw, l, c + 1)

\* loadWithRetry after loadScript resolved: isLoaded is set, the promise resolves.
loaded(lw, l) ==
  resume([lw EXCEPT !.loaders[l].isLoaded = TRUE, !.loaders[l].promise = "resolved",
                    !.loaders[l].phase = "idle"], l, 1)

\* A loadWithRetry that retries whatever the attempt number.
failedRetriesAlways(lw, l) == [lw EXCEPT !.loaders[l].phase = "delay"]

\* loadWithRetry after loadScript rejected: a delay and another attempt while
\* attempt < options.retryAttempts, otherwise the promise rejects.
failed(lw, l) ==
  IF lw.loaders[l].attempt < options.retryAttempts
  THEN [lw EXCEPT !.loaders[l].phase = "delay"]
  ELSE resume([lw EXCEPT !.loaders[l].promise = "rejected",
                         !.loaders[l].phase = "idle"], l, 1)

\* loadScript, called by loadWithRetry(attempt): window.sajkoConfig is set; a
\* script element of the URL already in the document resolves at once;
\* otherwise an element is appended and its load, error or timeout awaited.
loadScript(lw, l, attempt) ==
  LET lw1 == [lw EXCEPT !.windowSajkoConfig = TRUE, !.loadScriptCalls = @ + 1,
                        !.loaders[l].attempt = attempt]
  IN IF lw1.scriptEl.state # "none"
     THEN loaded(lw1, l)
     ELSE [lw1 EXCEPT !.scriptEl = [state |-> "pending", owner |-> l, attempt |-> attempt],
                      !.appends = @ + 1,
                      !.loaders[l].phase = "loadScript"]

\* load(), called by init() call c on loader l: an existing scriptPromise is
\* awaited; a loaded script with window.SajkoReplay is returned; otherwise
\* loadWithRetry starts and its promise is kept in scriptPromise.
load(lw, l, c) ==
  LET lw1 == [lw EXCEPT !.calls[c].pc = "awaitScript", !.calls[c].loader = l]
  IN IF lw.loaders[l].promise # "null"
     THEN IF lw.loaders[l].promise = "pending" THEN lw1 ELSE resume(lw1, l, 1)
     ELSE IF lw.loaders[l].isLoaded /\ lw.replay.present
          THEN returnHandle(lw1, c)
          ELSE loadScript([lw1 EXCEPT !.loaders[l].promise = "pending"], l, 1)

\* A getInstance that constructs a loader on every call.
getInstanceConstructsAlways(lw) ==
  CHOOSE l \in 1..MaxLoaders :
    /\ lw.loaders[l] = NoLoader
    /\ \A k \in 1..(l - 1) : lw.loaders[k] # NoLoader

\* SajkoLoader.getInstance: the singleton, constructed on first use.
getInstance(lw) ==
  IF lw.singleton = 0
  THEN CHOOSE l \in 1..MaxLoaders :
         /\ lw.loaders[l] = NoLoader
         /\ \A k \in 1..(l - 1) : lw.loaders[k] # NoLoader
  ELSE lw.singleton

\* An init() that takes the loader before it looks at the websiteId.
initValidatesLate(lw, c) ==
  LET late == \E l \in 1..MaxLoaders : lw.loaders[l].isLoaded /\ lw.scriptEl.state = "loaded"
      lw0 == [lw EXCEPT !.calls[c].late = late]
  IN IF lw.sajkoInstance # 0 /\ lw.loaderInstance # 0
        /\ isScriptLoaded(lw, lw.loaderInstance)
     THEN [lw0 EXCEPT !.calls[c].pc = "returned", !.calls[c].handle = lw.sajkoInstance]
     ELSE LET l == getInstance(lw0)
              lw1 == [lw0 EXCEPT !.singleton = l, !.loaderInstance = l]
          IN IF ~CONFIG.websiteId
             THEN [lw1 EXCEPT !.calls[c].pc = "rejected"]
             ELSE load(lw1, l, c)

\* init(): the existing instance when there is one and the script is loaded;
\* a rejection without a websiteId; otherwise the loader's load().
init(lw, c) ==
  LET late == \E l \in 1..MaxLoaders : lw.loaders[l].isLoaded /\ lw.scriptEl.state = "loaded"
      lw0 == [lw EXCEPT !.calls[c].late = late]
  IN IF lw.sajkoInstance # 0 /\ lw.loaderInstance # 0
        /\ isScriptLoaded(lw, lw.loaderInstance)
     THEN [lw0 EXCEPT !.calls[c].pc = "returned", !.calls[c].handle = lw.sajkoInstance]
     ELSE IF ~CONFIG.websiteId
          THEN [lw0 EXCEPT !.calls[c].pc = "rejected"]
          ELSE LET l == getInstance(lw0)
               IN load([lw0 EXCEPT !.singleton = l, !.loaderInstance = l], l, c)

\* The effect of useSajko, set up: nothing when initialized.current is set;
\* otherwise the ref is set, `mounted` starts true and initializeSajko runs up
\* to its await of init() (call c of the core).
useSajkoEffect(lw, c) ==
  IF lw.hook.initialized
  THEN [lw EXCEPT !.hook.effect = "active", !.hook.runs = @ + 1, !.hook.owner = FALSE]
  ELSE init([lw EXCEPT !.hook.effect = "active", !.hook.runs = @ + 1,
                       !.hook.initialized = TRUE, !.hook.mounted = TRUE,
                       !.hook.owner = TRUE, !.hook.call = c, !.hook.pc = "awaiting",
                       !.hook.initCalls = @ + 1,
                       !.hook.state.loading = TRUE, !.hook.state.error = FALSE], c)

\* The effect's cleanup: the closure's `mounted` is cleared by the cleanup of
\* the effect that made it; an effect that returned early has no cleanup.
useSajkoCleanup(lw) ==
  [lw EXCEPT !.hook.effect = "cleaned",
             !.hook.mounted = IF lw.hook.owner THEN FALSE ELSE @]

\* initializeSajko after its await of init(): nothing when `mounted` is
\* false; otherwise the handle, or the error, is put in the state with
\* loading false.
initializeSajkoResumed(lw) ==
  LET call == lw.calls[lw.hook.call]
  IN IF ~lw.hook.mounted
     THEN [lw EXCEPT !.hook.pc = "done"]
     ELSE IF call.pc = "returned"
          THEN [lw EXCEPT !.hook.pc = "done",
                          !.hook.state = [sajko |-> call.handle, loading |-> FALSE,
                                          error |-> FALSE]]
          ELSE [lw EXCEPT !.hook.pc = "done",
                          !.hook.state.loading = FALSE, !.hook.state.error = TRUE]

\* The members of the object the script assigns to window.SajkoReplay that
\* are functions.
SajkoReplayMethods == {"start", "stop", "flush", "getMetrics"}

\* track() and identify() of the core: a warning without an instance; the
\* handle's trackEvent (identify) when it has one, which would record through
\* the engine; otherwise a warning that the method is not available.
forward(w, method, name, env) ==
  IF sajkoInstance = 0
  THEN [w EXCEPT !.apiLog = Append(@, [call |-> name, initialized |-> FALSE,
                                       recording |-> w.isRecording, captured |-> FALSE])]
  ELSE IF method \in SajkoReplayMethods
       THEN LET w1 == addEvent(w, Event(w, "custom", "none", "none", FALSE, FALSE), env)
            IN [w1 EXCEPT !.apiLog = Append(@, [call |-> name, initialized |-> TRUE,
                                                recording |-> w.isRecording,
                                                captured |-> w1.captured > w.captured])]
       ELSE [w EXCEPT !.apiLog = Append(@, [call |-> name, initialized |-> TRUE,
                                            recording |-> w.isRecording, captured |-> FALSE])]

track(w, env) == forward(w, "trackEvent", "track", env)

identify(w, env) == forward(w, "identify", "identify", env)

engineVars ==
  <<now, initPc, recPc, windowWASMBridge, wasmBridge, isRecording, eventQueue,
    listeners, batchTimers, heartbeatInterval, visibilityTimer, hidden,
    historyPatched, perfObservers, SajkoReplay, exitMarker, hideMarker, inflight,
    captured, starts, network, exitLog, stopCalled, afterStop, recorderInstance,
    storedSession, constructions, staleSends, maskFaults, exitTransports, unloadRun, syncPayload, lateSuppressed, heartbeatsSent, sessionCreate, fate, apiLog, moves, lastMouseMove, nav, escaped, identity, sent>>

\* The application calls init(config).
CoreInit ==
  /\ \E c \in 1..MaxCalls :
       /\ calls[c].pc = "idle"
       /\ \A k \in 1..(c - 1) : calls[k].pc # "idle"
       /\ (singleton = 0 /\ CONFIG.websiteId) => \E l \in 1..MaxLoaders : loaders[l] = NoLoader
       /\ LCommit(init(LWorld, c))
  /\ unloaded' = FALSE
  /\ UNCHANGED <<pageVars, engineVars>>

\* React sets up the effect of the component: on mount, and again after a
\* cleanup (the development double invocation keeps the refs and the state).
EffectMount ==
  /\ hook.effect # "active" /\ hook.runs < MaxMounts
  /\ \E c \in 1..MaxCalls :
       /\ calls[c].pc = "idle"
       /\ \A k \in 1..(c - 1) : calls[k].pc # "idle"
       /\ (singleton = 0 /\ CONFIG.websiteId) => \E l \in 1..MaxLoaders : loaders[l] = NoLoader
       /\ LCommit(useSajkoEffect(LWorld, c))
  /\ unloaded' = IF hook.initialized THEN unloaded ELSE FALSE
  /\ UNCHANGED <<pageVars, engineVars>>

\* React runs the cleanup of the effect that is set up.
EffectCleanup ==
  /\ hook.effect = "active"
  /\ LCommit(useSajkoCleanup(LWorld))
  /\ UNCHANGED <<pageVars, engineVars, unloaded>>

\* The init() the hook awaits has settled: initializeSajko goes on.
HookInitSettles ==
  /\ hook.pc = "awaiting"
  /\ calls[hook.call].pc \in {"returned", "rejected"}
  /\ LCommit(initializeSajkoResumed(LWorld))
  /\ UNCHANGED <<pageVars, engineVars, unloaded>>

\* The script element has loaded: the script runs (and schedules its init()
\* unless a recorder instance exists), then onload resolves the loadScript
\* that appended the element, if it is still waiting.
ScriptLoads ==
  /\ scriptEl.state = "pending"
  /\ LET lw == [LWorld EXCEPT !.scriptEl.state = "loaded"]
         l == scriptEl.owner
     IN LCommit(IF lw.loaders[l].phase = "loadScript" /\ lw.loaders[l].attempt = scriptEl.attempt
                THEN loaded(lw, l) ELSE lw)
  /\ initPc' = IF ~recorderInstance THEN "start" ELSE initPc
  /\ UNCHANGED <<pageVars, now, recPc, windowWASMBridge, wasmBridge, isRecording,
                 eventQueue, listeners, batchTimers, heartbeatInterval,
                 visibilityTimer, hidden, historyPatched, perfObservers, SajkoReplay,
                 exitMarker, hideMarker, inflight, captured, starts, network,
                 exitLog, stopCalled, afterStop, recorderInstance, storedSession, constructions, staleSends, maskFaults, exitTransports, unloadRun, syncPayload, lateSuppressed, heartbeatsSent, sessionCreate, fate, apiLog, moves, lastMouseMove, nav, escaped, identity,
                 sent,
                 unloaded>>

\* The script element's fetch fails: onerror rejects the loadScript that
\* appended it.  The element stays in the document.
ScriptErrors ==
  /\ scriptEl.state = "pending"
  /\ LET lw == [LWorld EXCEPT !.scriptEl.state = "error"]
         l == scriptEl.owner
     IN LCommit(IF lw.loaders[l].phase = "loadScript" /\ lw.loaders[l].attempt = scriptEl.attempt
                THEN failed(lw, l) ELSE lw)
  /\ UNCHANGED <<pageVars, engineVars, unloaded>>

\* options.timeout passes before the element loads or fails: loadScript
\* rejects.  The element stays in the document, still loading.
ScriptTimeout ==
  /\ scriptEl.state = "pending"
  /\ loaders[scriptEl.owner].phase = "loadScript"
  /\ loaders[scriptEl.owner].attempt = scriptEl.attempt
  /\ LCommit(failed(LWorld, scriptEl.owner))
  /\ UNCHANGED <<pageVars, engineVars, unloaded>>

\* retryDelay has passed: loadWithRetry(attempt + 1).
RetryDelayElapses ==
  /\ \E l \in 1..MaxLoaders :
       /\ loaders[l].phase = "delay"
       /\ LCommit(loadScript([LWorld EXCEPT !.loaders[l].phase = "idle"], l,
                             loaders[l].attempt + 1))
  /\ UNCHANGED <<pageVars, engineVars, unloaded>>

\* A poll of waitForReplay finds window.SajkoReplay.
WaitForReplayReturns ==
  /\ SajkoReplay.present
  /\ \E c \in 1..MaxCalls :
       /\ calls[c].pc = "waitReplay"
       /\ LCommit(returnHandle(LWorld, c))
  /\ UNCHANGED <<pageVars, engineVars, unloaded>>

\* maxWait passes without window.SajkoReplay: waitForReplay throws.
WaitForReplayTimesOut ==
  /\ ~SajkoReplay.present
  /\ \E c \in 1..MaxCalls :
       /\ calls[c].pc = "waitReplay"
       /\ LCommit([LWorld EXCEPT !.calls[c].pc = "rejected"])
  /\ UNCHANGED <<pageVars, engineVars, unloaded>>

\* The application calls track(name, props).
CoreTrack ==
  /\ Len(apiLog) < MaxApiCalls /\ Room(1)
  /\ \E env \in Envs : Commit(track(World, env))
  /\ Frame

\* The application calls identify(userId, traits).
CoreIdentify ==
  /\ Len(apiLog) < MaxApiCalls /\ Room(1)
  /\ \E env \in Envs : Commit(identify(World, env))
  /\ Frame

\* unload(): the loader's unload() stops the recorder when the handle's
\* isRecording is true, removes the script element, deletes the three globals
\* and resets the loader; then both module references are nulled.  The
\* application is taken to call it with no init() pending and the engine's
\* own start-up settled.
CoreUnload ==
  /\ loaderInstance # 0
  /\ \A c \in 1..MaxCalls : calls[c].pc \in {"idle", "returned", "rejected"}
  /\ loaders[loaderInstance].phase = "idle"
  /\ scriptEl.state # "pending"
  /\ initPc \in {"absent", "published", "disabled"} /\ recPc = "none"
  /\ \E env \in Envs :
       LET w == IF SajkoReplay.present /\ SajkoReplay.isRecording
                THEN stop(World, env) ELSE World
       IN Commit([w EXCEPT !.recorderInstance = FALSE])
  /\ SajkoReplay' = [SajkoReplay EXCEPT !.present = FALSE, !.isRecording = FALSE]
  /\ LCommit([LWorld EXCEPT !.scriptEl = NoScript, !.windowSajkoConfig = FALSE,
                            !.loaders[loaderInstance] = NoLoader, !.singleton = 0,
                            !.sajkoInstance = 0, !.loaderInstance = 0])
  /\ unloaded' = TRUE
  /\ UNCHANGED <<pageVars, now, initPc, windowWASMBridge, starts>>

\* The page holds the script in a tag of its own; the script has not run yet.
Init ==
  /\ CONFIG \in [hasUserConsent : BOOLEAN, websiteId : BOOLEAN]
  /\ options = [retryAttempts |-> DefaultRetryAttempts]
  /\ windowWASMBridge \in BOOLEAN
  /\ now = 0
  /\ initPc = "start"
  /\ recPc = "none"
  /\ wasmBridge = "null"
  /\ isRecording = FALSE
  /\ eventQueue = <<>>
  /\ listeners = 0
  /\ batchTimers = 0
  /\ heartbeatInterval = FALSE
  /\ visibilityTimer = FALSE
  /\ hidden = FALSE
  /\ historyPatched = 0
  /\ perfObservers = 0
  /\ SajkoReplay = [present |-> FALSE, isRecording |-> FALSE, gen |-> 0]
  /\ exitMarker = -1
  /\ hideMarker = FALSE
  /\ inflight = {}
  /\ captured = 0
  /\ starts = 0
  /\ network = {}
  /\ exitLog = <<>>
  /\ stopCalled = FALSE
  /\ afterStop = {}
  /\ recorderInstance = FALSE
  /\ storedSession = FALSE
  /\ constructions = 0
  /\ pageLoads = 0
  /\ staleSends = {}
  /\ maskFaults = {}
  /\ exitTransports = {}
  /\ unloadRun = NoUnloadRun
  /\ syncPayload = <<>>
  /\ lateSuppressed = {}
  /\ heartbeatsSent = {}
  /\ sessionCreate = "none"
  /\ fate = NoFate
  /\ apiLog = <<>>
  /\ sajkoConfigPerformance = DefaultPerformance
  /\ moves = NoMoves
  /\ lastMouseMove = 0
  /\ nav = NoNav
  /\ escaped = {}
  /\ online = TRUE
  /\ navigatorSendBeacon = TRUE
  /\ storageThrows = FALSE
  /\ identity = NoIdentity
  /\ sent = <<>>
  /\ sajkoInstance = 0
  /\ loaderInstance = 0
  /\ singleton = 0
  /\ loaders = [l \in 1..MaxLoaders |-> NoLoader]
  /\ calls = [c \in 1..MaxCalls |-> NoCall]
  /\ scriptEl = NoScript
  /\ windowSajkoConfig = FALSE
  /\ appends = 0
  /\ loadScriptCalls = 0
  /\ hook = NoHook
  /\ unloaded = FALSE

\* The script's init() and the recorder's initialize().
Startup ==
  \/ RunInit \/ BridgeScriptLoaded \/ BridgeScriptFailed
  \/ BridgeInitSettles \/ SessionCreateSettles

\* Lifecycle, timers and the queue: the public API, clicks and performance
\* entries as the captured signals, the batch and heartbeat timers, and the
\* accepted batch requests.  A refused request and its requeue are explored
\* under SpecCapture, SpecSwap and SpecOrder.
Next ==
  \/ Startup
  \/ Start \/ Stop \/ Flush
  \/ Click \/ PerformanceEntry
  \/ BatchTimerTick \/ HeartbeatTick
  \/ BatchOk

Spec == Init /\ [][Next]_vars

\* The exit path: termination and visibility signals as time passes.
NextExit ==
  \/ Startup
  \/ Click
  \/ UnloadSignal \/ PageHideSignal \/ VisibilityChange \/ VisibilityTimeout
  \/ Tick

SpecExit == Init /\ [][NextExit]_vars

\* Exit signals spread over more than the duplicate window.
NextMarker ==
  \/ Startup
  \/ UnloadSignal \/ PageHideSignal
  \/ ExitTick

SpecMarker == Init /\ [][NextMarker]_vars

\* Capture of user input: keys, form input and submits, and their delivery.
NextCapture ==
  \/ Startup
  \/ Keydown \/ Input \/ Submit
  \/ Flush \/ BatchOk \/ BatchFail

SpecCapture == Init /\ [][NextCapture]_vars

\* Form submits with a bridge that works or throws, and their delivery.
NextMaskFault ==
  \/ Startup
  \/ Submit \/ SubmitBridgeThrows
  \/ Flush \/ BatchOk \/ BatchFail

SpecMaskFault == Init /\ [][NextMaskFault]_vars

\* Delivery with a working network: captures, flushes by ceiling, timer and
\* API, and the bridge behaving in each of its ways.
NextBridge ==
  \/ Startup
  \/ Click \/ PerformanceEntry
  \/ Flush \/ BatchTimerTick
  \/ BatchOk

SpecBridge == Init /\ [][NextBridge]_vars

\* The creation times a session found in sessionStorage may carry, the
\* script running at time 0: one tick short of the limit age, the limit age,
\* and one tick.
StoredCreated == {TickMs - SessionTtlMs, 0 - SessionTtlMs, 0 - TickMs}

\* The script starts in a tab that may hold a session of an earlier page, with
\* stores that may throw.
InitIdentity ==
  /\ CONFIG \in [hasUserConsent : BOOLEAN, websiteId : BOOLEAN]
  /\ options = [retryAttempts |-> DefaultRetryAttempts]
  /\ windowWASMBridge \in BOOLEAN
  /\ now = 0
  /\ initPc = "start"
  /\ recPc = "none"
  /\ wasmBridge = "null"
  /\ isRecording = FALSE
  /\ eventQueue = <<>>
  /\ listeners = 0
  /\ batchTimers = 0
  /\ heartbeatInterval = FALSE
  /\ visibilityTimer = FALSE
  /\ hidden = FALSE
  /\ historyPatched = 0
  /\ perfObservers = 0
  /\ SajkoReplay = [present |-> FALSE, isRecording |-> FALSE, gen |-> 0]
  /\ exitMarker = -1
  /\ hideMarker = FALSE
  /\ inflight = {}
  /\ captured = 0
  /\ starts = 0
  /\ network = {}
  /\ exitLog = <<>>
  /\ stopCalled = FALSE
  /\ afterStop = {}
  /\ recorderInstance = FALSE
  /\ storedSession \in BOOLEAN
  /\ constructions = 0
  /\ pageLoads = 0
  /\ staleSends = {}
  /\ maskFaults = {}
  /\ exitTransports = {}
  /\ unloadRun = NoUnloadRun
  /\ syncPayload = <<>>
  /\ lateSuppressed = {}
  /\ heartbeatsSent = {}
  /\ sessionCreate = "none"
  /\ fate = NoFate
  /\ apiLog = <<>>
  /\ sajkoConfigPerformance = DefaultPerformance
  /\ moves = NoMoves
  /\ lastMouseMove = 0
  /\ nav = NoNav
  /\ escaped = {}
  /\ online = TRUE
  /\ navigatorSendBeacon = TRUE
  /\ storageThrows \in BOOLEAN
  /\ identity \in {[NoIdentity EXCEPT !.storedId = IF storedSession THEN 1 ELSE 0,
                                      !.created = IF storedSession THEN c ELSE 0,
                                      !.visitorStored = v] :
                    c \in StoredCreated, v \in {0, 1}}
  /\ sent = <<>>
  /\ sajkoInstance = 0
  /\ loaderInstance = 0
  /\ singleton = 0
  /\ loaders = [l \in 1..MaxLoaders |-> NoLoader]
  /\ calls = [c \in 1..MaxCalls |-> NoCall]
  /\ scriptEl = NoScript
  /\ windowSajkoConfig = FALSE
  /\ appends = 0
  /\ loadScriptCalls = 0
  /\ hook = NoHook
  /\ unloaded = FALSE

\* A page that stays open while a session found in the tab reaches its limit
\* age: captures, heartbeats and exit signals before and after.
NextExpiry ==
  \/ Startup
  \/ Click \/ HeartbeatTick
  \/ UnloadSignal \/ PageHideSignal
  \/ Tick

SpecExpiry == InitIdentity /\ [][NextExpiry]_vars

\* What a page that has just started finds: no script state, and the stores
\* of the tab (sessionStorage) and of the origin (localStorage) as they were left.
FreshWorld ==
  [now |-> now,
   wasmBridge |-> "null",
   isRecording |-> FALSE,
   eventQueue |-> <<>>,
   listeners |-> 0,
   batchTimers |-> 0,
   heartbeatInterval |-> FALSE,
   visibilityTimer |-> FALSE,
   hidden |-> FALSE,
   historyPatched |-> 0,
   perfObservers |-> 0,
   recPc |-> "none",
   exitMarker |-> exitMarker,
   hideMarker |-> hideMarker,
   inflight |-> {},
   captured |-> 0,
   network |-> {},
   exitLog |-> <<>>,
   stopCalled |-> FALSE,
   afterStop |-> {},
   recorderInstance |-> FALSE,
   storedSession |-> storedSession,
   constructions |-> constructions,
   staleSends |-> {},
   maskFaults |-> {},
   exitTransports |-> {},
   unloadRun |-> NoUnloadRun,
   syncPayload |-> <<>>,
   lateSuppressed |-> {},
   heartbeatsSent |-> {},
   sessionCreate |-> "none",
   fate |-> NoFate,
   apiLog |-> <<>>,
   moves |-> NoMoves,
   lastMouseMove |-> 0,
   nav |-> NoNav,
   escaped |-> {},
   identity |-> [NoIdentity EXCEPT !.storedId = identity.storedId, !.created = identity.created,
                         !.visitorStored = identity.visitorStored],
   sent |-> <<>>]

\* The tab loads the page again (a reload, or a return to its URL): the
\* script runs again from the start over the stores the last load left.
PageLoad ==
  /\ pageLoads < MaxPageLoads
  /\ pageLoads' = pageLoads + 1
  /\ Commit(FreshWorld)
  /\ initPc' = "start"
  /\ windowWASMBridge' \in BOOLEAN
  /\ SajkoReplay' = [present |-> FALSE, isRecording |-> FALSE, gen |-> 0]
  /\ starts' = 0
  /\ sajkoInstance' = 0
  /\ loaderInstance' = 0
  /\ singleton' = 0
  /\ loaders' = [l \in 1..MaxLoaders |-> NoLoader]
  /\ calls' = [c \in 1..MaxCalls |-> NoCall]
  /\ scriptEl' = NoScript
  /\ windowSajkoConfig' = FALSE
  /\ appends' = 0
  /\ loadScriptCalls' = 0
  /\ hook' = NoHook
  /\ unloaded' = FALSE
  /\ UNCHANGED <<sajkoConfigPerformance, CONFIG, options, storageThrows, navigatorSendBeacon,
                 online, now>>

\* A tab that loads the page again and again over its stores, the clock
\* advancing.
NextTab == Startup \/ Tick \/ PageLoad

SpecTab == InitIdentity /\ [][NextTab]_vars

\* The recorder's construction at different times of the clock.
NextIdentity == Startup \/ Tick

SpecIdentity == InitIdentity /\ [][NextIdentity]_vars

\* The script starts in a browser that may lack navigator.sendBeacon, with a
\* collector that may be out of reach.
InitFaults ==
  /\ CONFIG \in [hasUserConsent : BOOLEAN, websiteId : BOOLEAN]
  /\ options = [retryAttempts |-> DefaultRetryAttempts]
  /\ windowWASMBridge \in BOOLEAN
  /\ now = 0
  /\ initPc = "start"
  /\ recPc = "none"
  /\ wasmBridge = "null"
  /\ isRecording = FALSE
  /\ eventQueue = <<>>
  /\ listeners = 0
  /\ batchTimers = 0
  /\ heartbeatInterval = FALSE
  /\ visibilityTimer = FALSE
  /\ hidden = FALSE
  /\ historyPatched = 0
  /\ perfObservers = 0
  /\ SajkoReplay = [present |-> FALSE, isRecording |-> FALSE, gen |-> 0]
  /\ exitMarker = -1
  /\ hideMarker = FALSE
  /\ inflight = {}
  /\ captured = 0
  /\ starts = 0
  /\ network = {}
  /\ exitLog = <<>>
  /\ stopCalled = FALSE
  /\ afterStop = {}
  /\ recorderInstance = FALSE
  /\ storedSession = FALSE
  /\ constructions = 0
  /\ pageLoads = 0
  /\ staleSends = {}
  /\ maskFaults = {}
  /\ exitTransports = {}
  /\ unloadRun = NoUnloadRun
  /\ syncPayload = <<>>
  /\ lateSuppressed = {}
  /\ heartbeatsSent = {}
  /\ sessionCreate = "none"
  /\ fate = NoFate
  /\ apiLog = <<>>
  /\ sajkoConfigPerformance = DefaultPerformance
  /\ moves = NoMoves
  /\ lastMouseMove = 0
  /\ nav = NoNav
  /\ escaped = {}
  /\ online \in BOOLEAN
  /\ navigatorSendBeacon \in BOOLEAN
  /\ storageThrows = FALSE
  /\ identity = NoIdentity
  /\ sent = <<>>
  /\ sajkoInstance = 0
  /\ loaderInstance = 0
  /\ singleton = 0
  /\ loaders = [l \in 1..MaxLoaders |-> NoLoader]
  /\ calls = [c \in 1..MaxCalls |-> NoCall]
  /\ scriptEl = NoScript
  /\ windowSajkoConfig = FALSE
  /\ appends = 0
  /\ loadScriptCalls = 0
  /\ hook = NoHook
  /\ unloaded = FALSE

\* The exit handlers and the clock under those conditions.
NextFaults ==
  \/ Startup
  \/ Click
  \/ UnloadSignal \/ PageHideSignal
  \/ Tick

SpecFaults == InitFaults /\ [][NextFaults]_vars

\* Navigation inside the page: history calls, going back, structural changes,
\* and the snapshots the navigation handler waits for.
NextNav ==
  \/ Startup
  \/ PushState \/ PopState \/ DomMutation
  \/ NavSnapshotDone \/ PageEntryTimeout \/ EntrySnapshotDone

SpecNav == Init /\ [][NextNav]_vars

\* The script starts on a page that has consent and supplies a performance
\* section of its own.
InitConfigured ==
  /\ CONFIG = [hasUserConsent |-> TRUE, websiteId |-> TRUE]
  /\ options = [retryAttempts |-> DefaultRetryAttempts]
  /\ windowWASMBridge \in BOOLEAN
  /\ now = 0
  /\ initPc = "start"
  /\ recPc = "none"
  /\ wasmBridge = "null"
  /\ isRecording = FALSE
  /\ eventQueue = <<>>
  /\ listeners = 0
  /\ batchTimers = 0
  /\ heartbeatInterval = FALSE
  /\ visibilityTimer = FALSE
  /\ hidden = FALSE
  /\ historyPatched = 0
  /\ perfObservers = 0
  /\ SajkoReplay = [present |-> FALSE, isRecording |-> FALSE, gen |-> 0]
  /\ exitMarker = -1
  /\ hideMarker = FALSE
  /\ inflight = {}
  /\ captured = 0
  /\ starts = 0
  /\ network = {}
  /\ exitLog = <<>>
  /\ stopCalled = FALSE
  /\ afterStop = {}
  /\ recorderInstance = FALSE
  /\ storedSession = FALSE
  /\ constructions = 0
  /\ pageLoads = 0
  /\ staleSends = {}
  /\ maskFaults = {}
  /\ exitTransports = {}
  /\ unloadRun = NoUnloadRun
  /\ syncPayload = <<>>
  /\ lateSuppressed = {}
  /\ heartbeatsSent = {}
  /\ sessionCreate = "none"
  /\ fate = NoFate
  /\ apiLog = <<>>
  /\ sajkoConfigPerformance \in PerformanceChoices
  /\ moves = NoMoves
  /\ lastMouseMove = 0
  /\ nav = NoNav
  /\ escaped = {}
  /\ online = TRUE
  /\ navigatorSendBeacon = TRUE
  /\ storageThrows = FALSE
  /\ identity = NoIdentity
  /\ sent = <<>>
  /\ sajkoInstance = 0
  /\ loaderInstance = 0
  /\ singleton = 0
  /\ loaders = [l \in 1..MaxLoaders |-> NoLoader]
  /\ calls = [c \in 1..MaxCalls |-> NoCall]
  /\ scriptEl = NoScript
  /\ windowSajkoConfig = FALSE
  /\ appends = 0
  /\ loadScriptCalls = 0
  /\ hook = NoHook
  /\ unloaded = FALSE

\* Pointer moves at a pace faster than the interval the page asks for.
NextSampling ==
  \/ Startup
  \/ PointerMove \/ MoveTick

SpecSampling == InitConfigured /\ [][NextSampling]_vars

\* Clicks in quick succession on a page that supplies a ceiling of its own.
NextCeiling ==
  \/ Startup
  \/ Click
  \/ BatchOk

SpecCeiling == InitConfigured /\ [][NextCeiling]_vars

\* The page holds no script tag: the application loads it through init().
InitLoader ==
  /\ CONFIG \in [hasUserConsent : BOOLEAN, websiteId : BOOLEAN]
  /\ options \in [retryAttempts : 1..MaxRetryAttempts]
  /\ windowWASMBridge \in BOOLEAN
  /\ now = 0
  /\ initPc = "absent"
  /\ recPc = "none"
  /\ wasmBridge = "null"
  /\ isRecording = FALSE
  /\ eventQueue = <<>>
  /\ listeners = 0
  /\ batchTimers = 0
  /\ heartbeatInterval = FALSE
  /\ visibilityTimer = FALSE
  /\ hidden = FALSE
  /\ historyPatched = 0
  /\ perfObservers = 0
  /\ SajkoReplay = [present |-> FALSE, isRecording |-> FALSE, gen |-> 0]
  /\ exitMarker = -1
  /\ hideMarker = FALSE
  /\ inflight = {}
  /\ captured = 0
  /\ starts = 0
  /\ network = {}
  /\ exitLog = <<>>
  /\ stopCalled = FALSE
  /\ afterStop = {}
  /\ recorderInstance = FALSE
  /\ storedSession = FALSE
  /\ constructions = 0
  /\ pageLoads = 0
  /\ staleSends = {}
  /\ maskFaults = {}
  /\ exitTransports = {}
  /\ unloadRun = NoUnloadRun
  /\ syncPayload = <<>>
  /\ lateSuppressed = {}
  /\ heartbeatsSent = {}
  /\ sessionCreate = "none"
  /\ fate = NoFate
  /\ apiLog = <<>>
  /\ sajkoConfigPerformance = DefaultPerformance
  /\ moves = NoMoves
  /\ lastMouseMove = 0
  /\ nav = NoNav
  /\ escaped = {}
  /\ online = TRUE
  /\ navigatorSendBeacon = TRUE
  /\ storageThrows = FALSE
  /\ identity = NoIdentity
  /\ sent = <<>>
  /\ sajkoInstance = 0
  /\ loaderInstance = 0
  /\ singleton = 0
  /\ loaders = [l \in 1..MaxLoaders |-> NoLoader]
  /\ calls = [c \in 1..MaxCalls |-> NoCall]
  /\ scriptEl = NoScript
  /\ windowSajkoConfig = FALSE
  /\ appends = 0
  /\ loadScriptCalls = 0
  /\ hook = NoHook
  /\ unloaded = FALSE

\* Loading through the core API: calls of init(), the script element's
\* events, the loader's timers, and the script's own start-up.
NextLoader ==
  \/ CoreInit
  \/ ScriptLoads \/ ScriptErrors \/ ScriptTimeout \/ RetryDelayElapses
  \/ WaitForReplayReturns \/ WaitForReplayTimesOut
  \/ Startup

SpecLoader == InitLoader /\ [][NextLoader]_vars

\* The loader's timers run out, and a pending script element either loads,
\* fails or is timed out.
SpecLoaderFair ==
  /\ SpecLoader
  /\ WF_vars(ScriptLoads \/ ScriptErrors \/ ScriptTimeout)
  /\ WF_vars(RetryDelayElapses)
  /\ WF_vars(WaitForReplayReturns \/ WaitForReplayTimesOut)

\* A component using useSajko is the application's only caller of init():
\* its effect set up and cleaned up, the script's load and the engine's
\* start-up.
NextHook ==
  \/ EffectMount \/ EffectCleanup \/ HookInitSettles
  \/ ScriptLoads \/ ScriptErrors \/ ScriptTimeout \/ RetryDelayElapses
  \/ WaitForReplayReturns \/ WaitForReplayTimesOut
  \/ Startup

\* The loader's timers run out, a pending script element loads, fails or is
\* timed out, and a settled promise's continuation runs.
SpecHook ==
  /\ InitLoader /\ [][NextHook]_vars
  /\ WF_vars(ScriptLoads \/ ScriptErrors \/ ScriptTimeout)
  /\ WF_vars(RetryDelayElapses)
  /\ WF_vars(WaitForReplayReturns \/ WaitForReplayTimesOut)
  /\ WF_vars(HookInitSettles)

\* Captures while batches are in flight: flushes by ceiling and by call, the
\* synchronous flush of pagehide, and the sends' outcomes.
NextSwap ==
  \/ Startup
  \/ Click \/ PageHideSignal
  \/ Flush
  \/ BatchOk \/ BatchFail

SpecSwap == Init /\ [][NextSwap]_vars

\* Captures over time with sends that fail, in any order of the failures.
NextOrder ==
  \/ Startup
  \/ Click
  \/ Flush \/ BatchFail
  \/ Tick

SpecOrder == Init /\ [][NextOrder]_vars

\* The heartbeat interval over start(), stop() and changes of visibility,
\* observed by the recorder or not.
NextHeartbeat ==
  \/ Startup
  \/ Start \/ Stop
  \/ VisibilityChange \/ VisibilityUnobserved
  \/ HeartbeatTick

SpecHeartbeat == Init /\ [][NextHeartbeat]_vars

\* A page with the script in a tag of its own, whose application also calls
\* init() and the handle's start() and stop(): the behaviours up to the load
\* of a script element the loader appends.
NextSiteId ==
  \/ Startup
  \/ Start \/ Stop
  \/ Click
  \/ BatchTimerTick \/ HeartbeatTick
  \/ CoreInit

SpecSiteId == Init /\ [][NextSiteId]_vars

\* The application loads the script through init() and calls track() and
\* identify().
NextApi == NextLoader \/ CoreTrack \/ CoreIdentify

SpecApi == InitLoader /\ [][NextApi]_vars

\* Loading, unloading and loading again, with clicks in between.
NextUnload == NextLoader \/ CoreUnload \/ Click

SpecUnload == InitLoader /\ [][NextUnload]_vars

\* --------------------------------------------------------------- properties

\* C1: the live event queue never holds more records than the ceiling
\* eventQueueSize, whatever was captured and however the flushes ended.
QueueWithinCeiling == Len(eventQueue) <= eventQueueSize

\* C2: two exit-guaranteed sends of one session are never less than
\* ExitDedupMs apart: of two termination signals within a second, the second
\* is suppressed.
OneExitSendPerSecond ==
  \A i, j \in 1..Len(exitLog) :
    i < j => exitLog[j].t - exitLog[i].t >= ExitDedupMs

\* C3: without consent nothing is captured and no request of any kind (the
\* dependency script included) leaves the page.
NoConsentNoActivity ==
  ~CONFIG.hasUserConsent => (network = {} /\ captured = 0)

\* C4: however the calls of init() interleave, one script element at most is
\* appended, one loader and one pending load promise at most exist, every
\* call that returns returns the one published handle, and once a call has
\* returned no further loadScript runs and nothing more is appended.
LoadStartedOnce ==
  /\ [](/\ appends <= 1
        /\ Cardinality({l \in 1..MaxLoaders : loaders[l] # NoLoader}) <= 1
        /\ Cardinality({l \in 1..MaxLoaders : loaders[l].promise = "pending"}) <= 1
        /\ \A c \in 1..MaxCalls :
             calls[c].pc = "returned" =>
               /\ calls[c].handle # 0
               /\ calls[c].handle = SajkoReplay.gen
               /\ \A d \in 1..MaxCalls :
                    calls[d].pc = "returned" => calls[d].handle = calls[c].handle)
  /\ [][(\E c \in 1..MaxCalls : calls[c].pc = "returned") =>
          (appends' = appends /\ loadScriptCalls' = loadScriptCalls)]_vars

\* C4, reached: a call of init() made after the script had loaded has
\* returned the handle an earlier call returned.
LateCallReturnedSameHandle ==
  \E c, d \in 1..MaxCalls :
    /\ c # d
    /\ calls[c].pc = "returned" /\ calls[d].pc = "returned"
    /\ calls[d].late /\ ~calls[c].late
    /\ calls[c].handle = calls[d].handle
    /\ appends = 1

StoppedIsTerminal ==
  stopCalled =>
    (~isRecording /\ afterStop \cap {"capture", "recording", "request"} = {})

\* C7: a stopped recorder has no batch interval, no heartbeat interval and no
\* abandonment timeout left, and none of their callbacks has run since stop().
TimersCancelledByStop ==
  /\ "timer" \notin afterStop
  /\ (stopCalled /\ ~isRecording /\ recPc = "none") =>
       (batchTimers = 0 /\ ~heartbeatInterval /\ ~visibilityTimer)

\* C8: after unload() the recorder is not recording, the queue is empty, the
\* globals and the loader singleton are gone, and the per-tab storage (the
\* session id and the exit markers) is cleared.
UnloadReversesAll ==
  unloaded =>
    /\ ~isRecording /\ eventQueue = <<>>
    /\ ~SajkoReplay.present /\ ~windowSajkoConfig /\ ~recorderInstance
    /\ singleton = 0
    /\ ~storedSession /\ exitMarker = -1 /\ ~hideMarker

\* C9: no record, queued or in a batch on its way, that was taken from a
\* sensitive element carries what the user typed: its content is the sentinel.
SensitiveContentMasked ==
  LET Masked(e) == (e.sensitive /\ e.key # "none") => e.value = "[MASKED]"
  IN /\ \A i \in 1..Len(eventQueue) : Masked(eventQueue[i])
     /\ \A b \in inflight : \A i \in 1..Len(b.events) : Masked(b.events[i])

\* C10: with consent and a website id, a bridge that cannot be loaded does
\* not leave the engine without recording.
BridgeFailureKeepsCapture ==
  (CONFIG.hasUserConsent /\ CONFIG.websiteId /\ initPc = "disabled") => isRecording

\* C11: whatever the bridge does (absent, not ready, mask or batch processing
\* throwing), the records handed to the batch requests are the captured
\* records, each once and in capture order: every record captured so far has
\* been handed over or is still queued.
FallbackDeliversSameRecords ==
  /\ \A i, j \in 1..Len(sent) : i < j => sent[i] < sent[j]
  /\ \A id \in 1..captured :
       \/ \E i \in 1..Len(sent) : sent[i] = id
       \/ \E i \in 1..Len(eventQueue) : eventQueue[i].id = id

\* C12: with stores that throw (consent given, website id set, the bridge
\* class at hand) the recorder still gets a session id and a visitor id, and
\* init() does not end in "Recording disabled".
StoreFailureKeepsIdentity ==
  (/\ storageThrows /\ CONFIG.hasUserConsent /\ CONFIG.websiteId /\ windowWASMBridge
   /\ initPc \notin {"start", "loadingBridge"})
    => (identity.id # 0 /\ identity.visitorId # 0 /\ initPc # "disabled")

\* C14: when the recorder is constructed over a stored session whose age is
\* SessionTtlMs or more, the session id it takes is not the stored one: it is a
\* new id, stored with the time of construction as its creation time.
ExpiredSessionNotReused ==
  [][(~recorderInstance /\ recorderInstance'
      /\ storedSession /\ now - identity.created >= SessionTtlMs)
       => (/\ identity'.id # identity.storedId
           /\ identity'.id # 0
           /\ identity'.storedId = identity'.id
           /\ identity'.created = now
           /\ storedSession')]_vars

\* C14, reached: a recorder constructed after the clock had advanced, over a
\* stored session (id 1) that had reached the limit age, holds the new id 2,
\* stored with the time of construction.
ExpiredSessionReplaced ==
  /\ recorderInstance /\ now > 0
  /\ identity.id = 2 /\ identity.storedId = 2
  /\ identity.created = now

\* C13: no exception escapes an engine handler, whatever fails.
NoExceptionEscapes == escaped = {}

\* C15: a change of location gets one page_navigation record across the
\* detectors, never a second one from the location observer, and the page
\* number goes up by one per change of location.
OneRecordPerTransition ==
  /\ \A i, j \in 1..Len(nav.log) :
       i # j => nav.log[i].transition # nav.log[j].transition
  /\ nav.currentPageNumber <= 1 + nav.transitions

\* C16: no two page_navigation records carry the same page number, and the
\* page numbers of the records increase in the order of detection.
PageNumbersFollowDetection ==
  \A i, j \in 1..Len(nav.log) :
    /\ i # j => nav.log[i].pageNumber # nav.log[j].pageNumber
    /\ nav.log[i].seq < nav.log[j].seq => nav.log[i].pageNumber < nav.log[j].pageNumber

\* A step in which the abandonment timeout expires: the pending timer is gone
\* and the page was and stays hidden (a change to visible cancels instead).
AbandonTimerExpires == visibilityTimer /\ ~visibilityTimer' /\ hidden /\ hidden'

\* A step in which an exit call for flow tracking goes to the collector.
FlowExitSent == "flowExit" \notin network /\ "flowExit" \in network'

\* C17: when the abandonment timer expires on a hidden page while recording,
\* an exit call for the hidden-idle reason is sent to the collector.
HiddenTimeoutSendsExit ==
  [][(AbandonTimerExpires /\ isRecording) => "flowExit" \in network']_vars

\* C18: a page that is visible has no abandonment timer pending, whatever the
\* sequence of hidden/visible changes, and an abandonment exit call is sent
\* only by a timer expiring on a page still hidden.
VisibleCancelsAbandonTimer ==
  [][/\ ~hidden' => ~visibilityTimer'
     /\ FlowExitSent => AbandonTimerExpires]_vars

\* C18 witness: the page was hidden while recording, is visible again, and the
\* timer is cancelled: the record of the change to visible is in the queue.
HiddenPeriodEndedTimerCancelled ==
  /\ ~hidden /\ ~visibilityTimer /\ isRecording
  /\ \E i \in 1..Len(eventQueue) : eventQueue[i].type = "visibility_change"

\* The least integer not below a / b.
CeilDiv(a, b) == (a + b - 1) \div b

\* C19: the pointer-move records captured over the interval from the first
\* to the last pointer move number at most ceil(T / pointerMoveMs) + 1, for the
\* interval pointerMoveMs the configuration supplies.
PointerSamplingBound ==
  moves.records <=
    CeilDiv(moves.last - moves.first, sajkoConfigPerformance.mouseSampleRate) + 1

\* A step in which a click's record is captured (no start-up step pending).
ClickCaptured == recPc = "none" /\ captured' = captured + 1

\* C20: with the ceiling N the configuration supplies, the insert that makes
\* the N-th record of the queue flushes at once, the batch being the queue's
\* records and the new one in capture order and the queue left empty; and a
\* flush made by an insert carries exactly N records.  (Stated for a recorder
\* without the bridge, whose flush cannot throw.)
CeilingFlushTakesAll ==
  [][(ClickCaptured /\ wasmBridge # "ready") =>
       /\ Len(eventQueue) + 1 = sajkoConfigPerformance.eventQueueSize =>
            /\ eventQueue' = <<>>
            /\ \E b \in inflight' : Ids(b.events) = Append(Ids(eventQueue), captured')
       /\ inflight' # inflight =>
            \E b \in inflight' \ inflight :
              Len(b.events) = sajkoConfigPerformance.eventQueueSize]_vars

\* C21: a call of track() or identify() made after init() has returned the
\* handle, while the engine is recording, gets its record captured.
ApiCallsCaptured ==
  \A i \in 1..Len(apiLog) :
    (apiLog[i].initialized /\ apiLog[i].recording) => apiLog[i].captured

\* C22: without a site id nothing starts: every init() of the core has
\* rejected with no loader made, no script appended and the module's
\* references unset, and the engine is not recording, has no listener, no
\* observer, no timer and has captured nothing.
MissingSiteIdNeverStarts ==
  ~CONFIG.websiteId =>
    /\ \A c \in 1..MaxCalls : calls[c].pc \in {"idle", "rejected"}
    /\ \A l \in 1..MaxLoaders : loaders[l] = NoLoader
    /\ singleton = 0 /\ loaderInstance = 0 /\ sajkoInstance = 0
    /\ appends = 0 /\ loadScriptCalls = 0 /\ scriptEl = NoScript /\ ~windowSajkoConfig
    /\ ~isRecording /\ listeners = 0 /\ historyPatched = 0 /\ perfObservers = 0
    /\ batchTimers = 0 /\ ~heartbeatInterval /\ ~visibilityTimer
    /\ captured = 0 /\ eventQueue = <<>>

\* C22 witness: consent is given and the site id is missing; init() of the
\* core was called and rejected, the script's own init() has run and start()
\* was called on the handle.
MissingSiteIdAllRejected ==
  /\ ~CONFIG.websiteId /\ CONFIG.hasUserConsent
  /\ \A c \in 1..MaxCalls : calls[c].pc = "rejected"
  /\ initPc = "published" /\ starts > 0 /\ recPc = "none"

\* The places a captured record is in: once per position in the live queue,
\* once per batch in flight that holds it, once if delivered, once if dropped.
Places(id) ==
  Len(SelectSeq(eventQueue, LAMBDA e : e.id = id))
  + Cardinality({b \in inflight : id \in IdSet(b.events)})
  + (IF id \in fate.delivered THEN 1 ELSE 0)
  + (IF id \in fate.dropped THEN 1 ELSE 0)

\* C23: at every state each captured record is in exactly one place: the live
\* queue, one batch in flight, delivered, or dropped on a failed send; so a
\* record captured during a send is not in that send's batch and is neither
\* lost nor doubled by its outcome.
EachRecordInOnePlace == \A id \in 1..captured : Places(id) = 1

\* C23 witness: a record was captured while a batch was in flight, that batch
\* failed and its tail is back in the queue ahead of the record.
CapturedDuringFailedSend ==
  /\ Len(eventQueue) = 2 /\ eventQueue[1].id < eventQueue[2].id
  /\ fate.dropped # {} /\ inflight = {}
  /\ \E d \in fate.dropped : d < eventQueue[1].id

BridgeErrorSendsWholeBatch ==
  [][/\ \A id \in IdSet(eventQueue) \ IdSet(eventQueue') :
          \E b \in inflight' \ inflight : id \in IdSet(b.events)
     /\ fate'.dropped = fate.dropped]_vars

\* C26: the live queue is in capture order at every state: the capture
\* timestamps do not decrease from head to tail.
QueueInCaptureOrder ==
  \A i, j \in 1..Len(eventQueue) :
    i < j => eventQueue[i].timestamp <= eventQueue[j].timestamp

\* C27: after any start(), stop() and initialization outcome each page
\* signal has at most one subscription (listener set, history override,
\* performance observer), and at most one batch timer runs.  (The heartbeat
\* timer is one by construction of heartbeatInterval.)
OneSubscriptionPerSignal ==
  /\ listeners <= 1 /\ historyPatched <= 1 /\ perfObservers <= 1
  /\ batchTimers <= 1

\* C28: when the session-create call of the script's start-up has failed, the
\* recorder does not record: the flag is false, no listener or timer is set
\* and no batch is sent.
SessionFailureStopsInit ==
  sessionCreate = "failed" =>
    /\ ~isRecording /\ listeners = 0 /\ batchTimers = 0
    /\ inflight = {} /\ "batch" \notin network

LateSignalNotSuppressed ==
  lateSuppressed = {}

\* The types of the terminal records handleUnload splices onto the tail.
TerminalTypes(scrolled) ==
  IF scrolled THEN <<"scroll", "page_unload">> ELSE <<"page_unload">>

\* C31: a handleUnload that is not suppressed flushes, in one synchronous
\* payload, the records it found in the queue in their order, then the final
\* scroll position if the page is scrolled, then the page_unload record,
\* which is last; the queue is empty when it returns.
UnloadFlushesQueueThenTerminals ==
  unloadRun.ran =>
    LET q == unloadRun.queue
        f == unloadRun.flushed
        t == TerminalTypes(unloadRun.scrolled)
    IN /\ Len(f) = Len(q) + Len(t)
       /\ SubSeq(f, 1, Len(q)) = q
       /\ \A i \in 1..Len(t) :
            /\ f[Len(q) + i].type = t[i]
            /\ \A j \in 1..Len(q) : f[Len(q) + i].id # q[j].id
       /\ f[Len(f)].type = "page_unload"
       /\ unloadRun.left = 0

\* C31 witness: an unload on a scrolled page with a record waiting in the
\* queue: three records flushed, none left.
UnloadWithQueuedRecordAndScroll ==
  /\ unloadRun.ran /\ unloadRun.scrolled
  /\ unloadRun.queue # <<>>
  /\ Len(unloadRun.flushed) = 3
  /\ eventQueue = <<>>

\* C32: every exit-guaranteed send, the exit batch and the completion call
\* alike, goes by the beacon when navigator.sendBeacon exists, and by
\* synchronous XHR only when it does not.
ExitSendsPreferBeacon ==
  \A e \in exitTransports :
    e.transport = IF navigatorSendBeacon THEN "beacon" ELSE "xhr"

\* C33: a batch request carries the compression tag (X-Compression with
\* X-Event-Count) exactly when its body is a payload the bridge reported as
\* compressed.
BatchTagMatchesCompaction ==
  \A b \in inflight : b.compressed <=> b.compacted

\* The records with the given id that are still to be seen: in the live queue
\* or in a batch in flight.
Visible(id) ==
  {eventQueue[i] : i \in {j \in 1..Len(eventQueue) : eventQueue[j].id = id}}
  \cup UNION {{b.events[i] : i \in {j \in 1..Len(b.events) : b.events[j].id = id}} :
               b \in inflight}

\* C34: when a per-record call of the ready bridge throws, each run of the
\* handler yields one record, the original one (its null fields not
\* removed), which is in exactly one place: neither dropped at capture nor
\* doubled.
BridgeThrowKeepsOriginalOnce ==
  \A f \in maskFaults :
    /\ f.after = f.before + f.runs
    /\ \A id \in (f.before + 1)..f.after :
         /\ Places(id) = 1
         /\ \A e \in Visible(id) : e.type = "form_submit" /\ e.nulls = f.nulls

\* C34 witness: a submit whose processing threw left its original record,
\* null fields kept, and a later submit was captured and processed.
LaterCaptureAfterBridgeThrow ==
  \E f \in maskFaults :
    /\ f.nulls /\ f.after < captured
    /\ \A g \in maskFaults : g.before < f.after
    /\ \E e \in Visible(f.after) : e.nulls
    /\ \E e \in Visible(captured) : ~e.nulls

\* C35: no batch, heartbeat or completion call is sent under a session id
\* whose session has reached the age SessionTtlMs.
NoSendUnderExpiredSession == staleSends = {}

\* C36: whenever a recorder is constructed over a stored session younger
\* than SessionTtlMs, it takes the stored id, and the stored record (id and
\* creation time) is left as it was, at every such construction.
LiveSessionReused ==
  [][(/\ ~recorderInstance /\ recorderInstance'
      /\ storedSession /\ now - identity.created < SessionTtlMs)
       => (/\ identity'.id = identity.storedId
           /\ identity'.storedId = identity.storedId
           /\ identity'.created = identity.created
           /\ storedSession')]_vars

\* C36 witness: the recorder of a later load, the second at least constructed
\* in the tab, holds the id of the session the tab came with, stored as it
\* was.
StoredSessionReusedOnLaterPage ==
  /\ pageLoads > 0 /\ constructions >= 2 /\ recorderInstance
  /\ identity.id = 1 /\ identity.storedId = 1
  /\ identity.created = 0 - TickMs

\* C37: once a visitor id is stored it is never replaced, and every recorder
\* constructed afterwards takes it.
VisitorIdCreatedOnce ==
  [][identity.visitorStored # 0
       => (/\ identity'.visitorStored = identity.visitorStored
           /\ (~recorderInstance /\ recorderInstance')
                => identity'.visitorId = identity.visitorStored)]_vars

\* C37 witness: the recorder of the last load, one recorder constructed per
\* load, after the session found in the tab has expired and been replaced,
\* holds the visitor id stored first.
VisitorKeptAcrossExpiryAndLoads ==
  /\ pageLoads = MaxPageLoads /\ constructions = MaxPageLoads + 1 /\ recorderInstance
  /\ identity.storedId = 2 /\ identity.created > 0
  /\ identity.visitorId = 1 /\ identity.visitorStored = 1

\* C38: while the handle is published, its isRecording (what the core's
\* isRecording() returns) is the recorder's recording flag, and so agrees
\* with getMetrics().isRecording.
HandleStatusIsCurrent ==
  SajkoReplay.present =>
    /\ SajkoReplay.isRecording = isRecording
    /\ SajkoReplay.isRecording = getMetrics(World).isRecording

\* C39: a loader reports the script as loaded only when the script element
\* has fired its load event, whatever attempts failed or timed out before.
IsLoadedOnlyAfterLoadEvent ==
  \A l \in 1..MaxLoaders : loaders[l].isLoaded => scriptEl.state = "loaded"

\* The component's state shows the outcome of init(): not loading, with the
\* handle or an error.
HookStateSettled ==
  ~hook.state.loading /\ (hook.state.sajko # 0 \/ hook.state.error)

\* C40: however the effect of a component using useSajko is set up, cleaned
\* up and set up again, init() is called once at most, and once initializeSajko
\* has gone past its await the component, while its effect is set up, comes to
\* a state that is not loading and holds the handle or an error.
HookInitOnceAndSettles ==
  /\ [](hook.initCalls <= 1)
  /\ ((hook.pc = "done") ~> (hook.effect # "active" \/ HookStateSettled))

====
